---- MODULE Spec2Model ----
(***************************************************************************)
(* A model of the embedded document database: the index layer, the index   *)
(* set of the datastore, the executor and its queue, and the persistence   *)
(* (append, compaction, load and replay).                                  *)
(***************************************************************************)
EXTENDS Integers, Sequences, FiniteSets, Bags, TLC

(***************************************************************************)
(* Bounds of the model.                                                    *)
(***************************************************************************)
\* number of tasks pushed on the executor in one behaviour
MaxOps == 3
\* number of calls on the index set in one behaviour
MaxCalls == 4
\* number of tasks suspended at a file operation at one time
MaxActs == 2
\* number of process restarts in one behaviour
MaxRestarts == 1

(***************************************************************************)
(* Values.  A value is a record holding its JavaScript kind and its        *)
(* String() representation, so that numbers and strings stay distinct.     *)
(***************************************************************************)
VUndef == [kind |-> "undefined", repr |-> "undefined"]
Num(r) == [kind |-> "number", repr |-> r]
Str(r) == [kind |-> "string", repr |-> r]
Arr(r) == [kind |-> "array", repr |-> r]
Date(r) == [kind |-> "date", repr |-> r]

\* JavaScript truthiness of a value: undefined, 0 and "" are falsy
Truthy(v) ==
  ~ \/ v.kind = "undefined"
    \/ (v.kind = "number" /\ v.repr = "0")
    \/ (v.kind = "string" /\ v.repr = "")

\* caller-supplied _id values
InputIds == {Num("0"), Num("1")}
\* the strings the random id generator can return
GenIds == {Str("g1"), Str("g2")}
\* values of the field name
Names == {VUndef, Str("a"), Str("b"), Arr("a,b")}

\* the distinct elements of an array value
Elements(v) == IF v = Arr("a,b") THEN {Str("a"), Str("b")} ELSE {}

\* documents as stored: an _id and the field name
Docs == [_id : InputIds \cup GenIds, name : Names]
\* documents as passed to insert: the _id may be left out
InputDocs == [_id : {Num("1"), VUndef}, name : Names]

\* model.getDotValue on the one-level documents of the model
GetDotValue(doc, fieldName) ==
  IF fieldName = "_id" THEN doc._id
  ELSE IF fieldName = "name" THEN doc.name
  ELSE VUndef

\* the fields an index can be asked on
Fields == {"_id", "name"}

\* rank of a key in the order of model.compareThings:
\* undefined < numbers (by value) < strings (by code unit) < dates (by time)
KeyRank(v) ==
  IF v.kind = "undefined" THEN 0
  ELSE IF v = Num("0") THEN 1
  ELSE IF v = Num("1") THEN 2
  ELSE IF v = Str("1") THEN 3
  ELSE IF v = Str("a") THEN 4
  ELSE IF v = Str("b") THEN 5
  ELSE IF v = Str("g1") THEN 6
  ELSE IF v = Str("g2") THEN 7
  ELSE IF v.kind = "date" THEN (IF v.repr = "old" THEN 8 ELSE 9)
  ELSE 10

\* the value v under the name of the parameter of Body, computed once
With(v, Body(_)) == Body(v)

\* model.compareThings restricted to undefined, numbers and strings
compareThings(a, b) ==
  With(KeyRank(a), LAMBDA ra : With(KeyRank(b), LAMBDA rb :
    IF ra < rb THEN -1 ELSE IF ra > rb THEN 1 ELSE 0))

(***************************************************************************)
(* The ordered tree of an index: a bag of <<key, document>> entries.       *)
(***************************************************************************)
TreeHasKey(tree, key) ==
  \E e \in BagToSet(tree) : compareThings(e[1], key) = 0

\* tree.insert(key, doc): a unique tree refuses a key it already holds
TreeInsert(tree, unique, key, doc) ==
  IF unique /\ TreeHasKey(tree, key)
  THEN [ok |-> FALSE, tree |-> tree]
  ELSE [ok |-> TRUE, tree |-> tree (+) SetToBag({<<key, doc>>})]

\* tree.delete(key, doc): removes the entry, no error when it is missing
TreeDelete(tree, key, doc) ==
  IF BagIn(<<key, doc>>, tree)
  THEN tree (-) SetToBag({<<key, doc>>})
  ELSE tree

\* tree.search(key): the documents held under key
TreeSearch(tree, key) ==
  {e[2] : e \in {x \in BagToSet(tree) : compareThings(x[1], key) = 0}}

(***************************************************************************)
(* Index: fieldName, unique, sparse and the tree.                          *)
(***************************************************************************)
NewIndex(fieldName, unique, sparse) ==
  [fieldName |-> fieldName, unique |-> unique, sparse |-> sparse,
   tree |-> EmptyBag]

\* Index.insert of one document.  An array key goes through _.uniq, and
\* the module defines no _ : the call throws before the tree is touched.
IndexInsert(idx, doc) ==
  With(GetDotValue(doc, idx.fieldName), LAMBDA key :
    IF key.kind = "undefined" /\ idx.sparse
    THEN [ok |-> TRUE, idx |-> idx]
    ELSE IF key.kind # "array"
    THEN With(TreeInsert(idx.tree, idx.unique, key, doc), LAMBDA r :
           [ok |-> r.ok, idx |-> [idx EXCEPT !.tree = r.tree]])
    ELSE [ok |-> FALSE, idx |-> idx])

\* Index.remove of one document
IndexRemove(idx, doc) ==
  With(GetDotValue(doc, idx.fieldName), LAMBDA key :
    IF key.kind = "undefined" /\ idx.sparse
    THEN [ok |-> TRUE, idx |-> idx]
    ELSE IF key.kind # "array"
    THEN [ok |-> TRUE,
          idx |-> [idx EXCEPT !.tree = TreeDelete(idx.tree, key, doc)]]
    ELSE [ok |-> FALSE, idx |-> idx])

\* Index.remove of an array of documents: forEach, stops at the first throw
RECURSIVE IndexRemoveAll(_, _)
IndexRemoveAll(idx, docs) ==
  IF docs = <<>> THEN [ok |-> TRUE, idx |-> idx]
  ELSE With(IndexRemove(idx, Head(docs)), LAMBDA r :
         IF r.ok THEN IndexRemoveAll(r.idx, Tail(docs)) ELSE r)

\* the insertion loop of Index.insertMultipleDocs: the index after the
\* inserts that succeeded and the position of the failing one (0 if none)
RECURSIVE IndexInsertLoop(_, _, _)
IndexInsertLoop(idx, docs, i) ==
  IF i > Len(docs) THEN [failingI |-> 0, idx |-> idx]
  ELSE With(IndexInsert(idx, docs[i]), LAMBDA r :
         IF r.ok THEN IndexInsertLoop(r.idx, docs, i + 1)
         ELSE [failingI |-> i, idx |-> idx])

\* Index.insertMultipleDocs: on a failure the documents inserted before
\* the failing one are removed again
insertMultipleDocs(idx, docs) ==
  With(IndexInsertLoop(idx, docs, 1), LAMBDA l :
    IF l.failingI = 0 THEN [ok |-> TRUE, idx |-> l.idx]
    ELSE [ok |-> FALSE,
          idx |-> IndexRemoveAll(l.idx, SubSeq(docs, 1, l.failingI - 1)).idx])

\* Index.reset(newData)
IndexReset(idx, newData) ==
  insertMultipleDocs([idx EXCEPT !.tree = EmptyBag], newData)

\* Index.getAll: the documents of the tree in key order
RECURSIVE SortedDocs(_)
SortedDocs(tree) ==
  IF tree = EmptyBag THEN <<>>
  ELSE With(CHOOSE x \in BagToSet(tree) :
              \A y \in BagToSet(tree) :
                /\ KeyRank(x[1]) <= KeyRank(y[1])
                /\ (KeyRank(x[1]) = KeyRank(y[1])
                      => KeyRank(x[2].name) <= KeyRank(y[2].name)),
            LAMBDA e : <<e[2]>> \o SortedDocs(tree (-) SetToBag({e})))

IndexGetAll(idx) == SortedDocs(idx.tree)

\* Index.update(oldDoc, newDoc) of one pair: remove the old version, insert
\* the new one, and on a failure put the old version back
IndexUpdateOne(idx, oldDoc, newDoc) ==
  With(IndexRemove(idx, oldDoc), LAMBDA r1 :
    IF ~r1.ok THEN r1
    ELSE With(IndexInsert(r1.idx, newDoc), LAMBDA r2 :
           IF r2.ok THEN r2
           ELSE [ok |-> FALSE, idx |-> IndexInsert(r2.idx, oldDoc).idx]))

\* the sequences of old and of new versions of an array of pairs
OldDocs(pairs) == [i \in 1..Len(pairs) |-> pairs[i].oldDoc]
NewDocs(pairs) == [i \in 1..Len(pairs) |-> pairs[i].newDoc]

\* the re-insertion of the old versions after a failed updateMultipleDocs:
\* a plain loop of Index.insert, a throw ends it
RECURSIVE IndexInsertEach(_, _)
IndexInsertEach(idx, docs) ==
  IF docs = <<>> THEN [ok |-> TRUE, idx |-> idx]
  ELSE With(IndexInsert(idx, Head(docs)), LAMBDA r :
         IF r.ok THEN IndexInsertEach(r.idx, Tail(docs)) ELSE r)

\* Index.updateMultipleDocs(pairs): remove every old version, insert the
\* new ones; on a failure remove the new ones inserted so far and insert
\* every old version again
updateMultipleDocs(idx, pairs) ==
  With(IndexRemoveAll(idx, OldDocs(pairs)), LAMBDA r1 :
    IF ~r1.ok THEN r1
    ELSE With(IndexInsertLoop(r1.idx, NewDocs(pairs), 1), LAMBDA l :
           IF l.failingI = 0 THEN [ok |-> TRUE, idx |-> l.idx]
           ELSE [ok |-> FALSE,
                 idx |-> IndexInsertEach(
                           IndexRemoveAll(
                             l.idx,
                             SubSeq(NewDocs(pairs), 1, l.failingI - 1)).idx,
                           OldDocs(pairs)).idx]))

\* Index.update: an array of pairs or one pair
IndexUpdate(idx, upd) ==
  IF upd.multi THEN updateMultipleDocs(idx, upd.pairs)
  ELSE IndexUpdateOne(idx, upd.pairs[1].oldDoc, upd.pairs[1].newDoc)

\* Index.revertUpdate: the update with old and new versions exchanged
revertUpdate(idx, upd) ==
  IndexUpdate(idx,
    [multi |-> upd.multi,
     pairs |-> [i \in 1..Len(upd.pairs) |->
                  [oldDoc |-> upd.pairs[i].newDoc,
                   newDoc |-> upd.pairs[i].oldDoc]]])

(***************************************************************************)
(* The index set of the datastore: the indexes in the order of             *)
(* Object.keys(this.indexes), i.e. in the order they were added.           *)
(***************************************************************************)
\* an _id index that is not unique
IdIndex_notUnique == NewIndex("_id", FALSE, FALSE)

\* this.indexes._id = new Index({ fieldName: "_id", unique: true })
IdIndex == NewIndex("_id", TRUE, FALSE)

HasIndex(idxs, fieldName) ==
  \E i \in 1..Len(idxs) : idxs[i].fieldName = fieldName

IndexOf(idxs, fieldName) ==
  idxs[CHOOSE i \in 1..Len(idxs) : idxs[i].fieldName = fieldName]

\* delete this.indexes[fieldName]
DeleteIndex(idxs, fieldName) ==
  SelectSeq(idxs, LAMBDA x : x.fieldName # fieldName)

\* Datastore.getAllData: this.indexes._id.getAll(), a TypeError when the
\* datastore has no _id index
getAllData(idxs) ==
  IF HasIndex(idxs, "_id")
  THEN [ok |-> TRUE, docs |-> IndexGetAll(IndexOf(idxs, "_id"))]
  ELSE [ok |-> FALSE, docs |-> <<>>]

\* Datastore.resetIndexes(newData): every index in turn, a throw ends the
\* loop and leaves the later indexes as they were
RECURSIVE ResetFrom(_, _, _)
ResetFrom(idxs, newData, i) ==
  IF i > Len(idxs) THEN [ok |-> TRUE, idxs |-> idxs]
  ELSE With(IndexReset(idxs[i], newData), LAMBDA r :
         IF r.ok THEN ResetFrom([idxs EXCEPT ![i] = r.idx], newData, i + 1)
         ELSE [ok |-> FALSE, idxs |-> [idxs EXCEPT ![i] = r.idx]])

resetIndexes(idxs, newData) == ResetFrom(idxs, newData, 1)

\* removal of doc from the indexes 1..n, as the rollback loops do it
RECURSIVE RemoveFromFirst(_, _, _)
RemoveFromFirst(idxs, doc, n) ==
  IF n = 0 THEN [ok |-> TRUE, idxs |-> idxs]
  ELSE With(RemoveFromFirst(idxs, doc, n - 1), LAMBDA before :
         IF ~before.ok THEN before
         ELSE With(IndexRemove(before.idxs[n], doc), LAMBDA r :
                [ok |-> r.ok, idxs |-> [before.idxs EXCEPT ![n] = r.idx]]))

\* the insertion loop of Datastore.addToIndexes
RECURSIVE AddLoop(_, _, _)
AddLoop(idxs, doc, i) ==
  IF i > Len(idxs) THEN [failingIndex |-> 0, idxs |-> idxs]
  ELSE With(IndexInsert(idxs[i], doc), LAMBDA r :
         IF r.ok THEN AddLoop([idxs EXCEPT ![i] = r.idx], doc, i + 1)
         ELSE [failingIndex |-> i, idxs |-> idxs])

\* addToIndexes without the removal from the earlier indexes
addToIndexes_noRollback(idxs, doc) ==
  With(AddLoop(idxs, doc, 1), LAMBDA l :
    [ok |-> l.failingIndex = 0, idxs |-> l.idxs])

\* Datastore.addToIndexes(doc): insert in every index; on the first
\* failure remove the document from the indexes before the failing one
addToIndexes(idxs, doc) ==
  With(AddLoop(idxs, doc, 1), LAMBDA l :
    IF l.failingIndex = 0 THEN [ok |-> TRUE, idxs |-> l.idxs]
    ELSE [ok |-> FALSE,
          idxs |-> RemoveFromFirst(l.idxs, doc, l.failingIndex - 1).idxs])

\* Datastore.removeFromIndexes(doc): remove from every index
removeFromIndexes(idxs, doc) == RemoveFromFirst(idxs, doc, Len(idxs))

\* the update loop of Datastore.updateIndexes
RECURSIVE UpdateLoop(_, _, _)
UpdateLoop(idxs, upd, i) ==
  IF i > Len(idxs) THEN [failingIndex |-> 0, idxs |-> idxs]
  ELSE With(IndexUpdate(idxs[i], upd), LAMBDA r :
         IF r.ok THEN UpdateLoop([idxs EXCEPT ![i] = r.idx], upd, i + 1)
         ELSE [failingIndex |-> i, idxs |-> [idxs EXCEPT ![i] = r.idx]])

\* revertUpdate on the indexes 1..n
RECURSIVE RevertFirst(_, _, _)
RevertFirst(idxs, upd, n) ==
  IF n = 0 THEN idxs
  ELSE With(RevertFirst(idxs, upd, n - 1), LAMBDA before :
         [before EXCEPT ![n] = revertUpdate(before[n], upd).idx])

\* updateIndexes without the revert of the earlier indexes
updateIndexes_noRevert(idxs, upd) ==
  With(UpdateLoop(idxs, upd, 1), LAMBDA l :
    [ok |-> l.failingIndex = 0, idxs |-> l.idxs])

\* Datastore.updateIndexes: update every index; on the first failure revert
\* the update on the indexes before the failing one
updateIndexes(idxs, upd) ==
  With(UpdateLoop(idxs, upd, 1), LAMBDA l :
    IF l.failingIndex = 0 THEN [ok |-> TRUE, idxs |-> l.idxs]
    ELSE [ok |-> FALSE,
          idxs |-> RevertFirst(l.idxs, upd, l.failingIndex - 1)])

\* the loop of Datastore._insertMultipleDocsInCache
RECURSIVE CacheLoop(_, _, _)
CacheLoop(idxs, docs, i) ==
  IF i > Len(docs) THEN [failingI |-> 0, idxs |-> idxs]
  ELSE With(addToIndexes(idxs, docs[i]), LAMBDA r :
         IF r.ok THEN CacheLoop(r.idxs, docs, i + 1)
         ELSE [failingI |-> i, idxs |-> r.idxs])

\* removeFromIndexes of the documents 1..n of a batch
RECURSIVE RemoveBatch(_, _, _)
RemoveBatch(idxs, docs, n) ==
  IF n = 0 THEN idxs
  ELSE removeFromIndexes(RemoveBatch(idxs, docs, n - 1), docs[n]).idxs

\* Datastore._insertMultipleDocsInCache: on a failure the documents of the
\* batch inserted before the failing one are removed from all indexes
_insertMultipleDocsInCache(idxs, docs) ==
  With(CacheLoop(idxs, docs, 1), LAMBDA l :
    IF l.failingI = 0 THEN [ok |-> TRUE, idxs |-> l.idxs]
    ELSE [ok |-> FALSE, idxs |-> RemoveBatch(l.idxs, docs, l.failingI - 1)])

\* Datastore._insertInCache: a batch or one document
_insertInCache(idxs, docs, batch) ==
  IF batch THEN _insertMultipleDocsInCache(idxs, docs)
  ELSE addToIndexes(idxs, docs[1])

(***************************************************************************)
(* Serialization and the datafile.  A line of the datafile is a record: a  *)
(* document, a tombstone, an index creation or removal, or a line that     *)
(* does not deserialize.                                                   *)
(***************************************************************************)
DocLine(doc) ==
  [t |-> "doc", _id |-> doc._id, name |-> doc.name,
   fieldName |-> "", unique |-> FALSE, sparse |-> FALSE]

DelLine(id) ==
  [t |-> "del", _id |-> id, name |-> VUndef,
   fieldName |-> "", unique |-> FALSE, sparse |-> FALSE]

IndexCreatedLine(fieldName, unique, sparse) ==
  [t |-> "idxc", _id |-> VUndef, name |-> VUndef,
   fieldName |-> fieldName, unique |-> unique, sparse |-> sparse]

IndexRemovedLine(fieldName) ==
  [t |-> "idxr", _id |-> VUndef, name |-> VUndef,
   fieldName |-> fieldName, unique |-> FALSE, sparse |-> FALSE]

GarbageLine ==
  [t |-> "garbage", _id |-> VUndef, name |-> VUndef,
   fieldName |-> "", unique |-> FALSE, sparse |-> FALSE]

\* model.serialize of a document: JSON.stringify keeps the _id and the
\* name, and leaves out a name that is undefined
serialize(doc) == DocLine(doc)

\* model.deserialize: throws on a line that is no JSON
deserialize(line) ==
  [ok |-> line.t # "garbage",
   doc |-> [_id |-> line._id, name |-> line.name]]

\* the default of corruptAlertThreshold, 0.1, as a fraction
ThresholdNum == 1
ThresholdDen == 10

\* a JavaScript object used as a map: its keys in insertion order
ObjHas(obj, k) == \E i \in 1..Len(obj) : obj[i].k = k
ObjSet(obj, k, v) ==
  IF ObjHas(obj, k)
  THEN [i \in 1..Len(obj) |-> IF obj[i].k = k THEN [k |-> k, v |-> v]
                                               ELSE obj[i]]
  ELSE Append(obj, [k |-> k, v |-> v])
ObjDelete(obj, k) == SelectSeq(obj, LAMBDA e : e.k # k)

\* one iteration of the loop of Persistence.treatRawData on a line that
\* deserialized
TreatLine(st, line) ==
  IF Truthy(line._id)
  THEN IF line.t = "del"
       THEN [st EXCEPT !.dataById = ObjDelete(st.dataById, line._id.repr)]
       ELSE [st EXCEPT !.dataById =
               ObjSet(st.dataById, line._id.repr, deserialize(line).doc)]
  ELSE IF line.t = "idxc"
  THEN [st EXCEPT !.indexes = ObjSet(st.indexes, line.fieldName, line)]
  ELSE IF line.t = "idxr"
  THEN [st EXCEPT !.indexes = ObjDelete(st.indexes, line.fieldName)]
  ELSE st

RECURSIVE TreatLoop(_, _)
TreatLoop(st, lines) ==
  IF lines = <<>> THEN st
  ELSE TreatLoop(
         IF deserialize(Head(lines)).ok
         THEN TreatLine(st, Head(lines))
         ELSE [st EXCEPT !.corruptItems = st.corruptItems + 1],
         Tail(lines))

\* Persistence.treatRawData: rawData.split("\n") gives the lines and one
\* last blank piece, which does not deserialize either
treatRawData(lines) ==
  With(TreatLoop([dataById |-> <<>>, indexes |-> <<>>, corruptItems |-> -1],
                 lines),
       LAMBDA st :
         [ok |-> ~ ((st.corruptItems + 1) * ThresholdDen
                      > ThresholdNum * (Len(lines) + 1)),
          data |-> [i \in 1..Len(st.dataById) |-> st.dataById[i].v],
          indexes |-> [i \in 1..Len(st.indexes) |-> st.indexes[i].v]])

\* this.db.indexes[key] = new Index(options): replaces the index of that
\* name in place, or adds one
SetIndex(idxs, line) ==
  With(NewIndex(line.fieldName, line.unique, line.sparse), LAMBDA new :
    IF HasIndex(idxs, line.fieldName)
    THEN [i \in 1..Len(idxs) |->
            IF idxs[i].fieldName = line.fieldName THEN new ELSE idxs[i]]
    ELSE Append(idxs, new))

RECURSIVE SetIndexes(_, _)
SetIndexes(idxs, lines) ==
  IF lines = <<>> THEN idxs
  ELSE SetIndexes(SetIndex(idxs, Head(lines)), Tail(lines))

\* the text Persistence.persistCachedDatabase writes: every document of
\* the _id index, then an index creation for every other index
CachedDatabaseLines(idxs) ==
  With(getAllData(idxs).docs, LAMBDA docs :
    With(SelectSeq(idxs, LAMBDA x : x.fieldName # "_id"), LAMBDA others :
      [i \in 1..Len(docs) |-> serialize(docs[i])]
      \o [i \in 1..Len(others) |->
            IndexCreatedLine(others[i].fieldName, others[i].unique,
                             others[i].sparse)]))

\* Persistence.persistNewState(newDocs): nothing to do in memory; on a
\* persistent datastore the callback of newDocs.forEach is a plain function
\* whose this is undefined, so the first document throws a TypeError before
\* anything is appended; with no document there is nothing to append
persistNewState(mem, file, newLines) ==
  IF mem THEN [ok |-> TRUE, file |-> file]
  ELSE IF newLines # <<>> THEN [ok |-> FALSE, file |-> file]
  ELSE [ok |-> TRUE, file |-> file]

\* an integrity check that renames the temporary file whenever there is one
ensureDatafileIntegrity_alwaysPromotes(fs) ==
  IF fs.temp.exists THEN [file |-> fs.temp, temp |-> [exists |-> FALSE,
                                                       lines |-> <<>>]]
  ELSE IF fs.file.exists THEN fs
  ELSE [file |-> [exists |-> TRUE, lines |-> <<>>], temp |-> fs.temp]

\* storage.ensureDatafileIntegrity on the pair (datafile, temporary file)
NoFile == [exists |-> FALSE, lines |-> <<>>]
ensureDatafileIntegrity(fs) ==
  IF fs.file.exists THEN fs
  ELSE IF ~fs.temp.exists
  THEN [file |-> [exists |-> TRUE, lines |-> <<>>], temp |-> fs.temp]
  ELSE [file |-> fs.temp, temp |-> NoFile]

(***************************************************************************)
(* The state of the program.                                               *)
(***************************************************************************)
VARIABLES
  inMemoryOnly,  \* Datastore.inMemoryOnly
  indexes,       \* Datastore.indexes
  ready,         \* Executor.ready
  buffer,        \* Executor.buffer
  queue,         \* Queue.queue
  isRunning,     \* Queue.isRunning
  qpos,          \* position of the iterator of Queue._run in queue
  acts,          \* the tasks suspended at a file operation
  datafile,      \* the datafile
  tempfile,      \* the temporary file of the crash safe write
  nops,          \* number of API calls made so far
  restarts,      \* number of restarts so far
  ev,            \* what the last step did
  lastMut,       \* the latest submitted operation that has changed the indexes
  outOfOrder,    \* an earlier operation changed the indexes after a later one
  preShutdown,   \* the documents in memory at the last shutdown
  postLoad,      \* the documents in memory after the first load since then
  csw,           \* a call of crashSafeWriteFile followed step by step
  callbacks,     \* the results and errors handed to the callers so far
  heap,          \* the objects of the datastore and of its caller
  loaded,        \* a load of this datastore has replayed the datafile
  ttlIndexes     \* Datastore.ttlIndexes: the fields registered to expire

vars == <<inMemoryOnly, indexes, ready, buffer, queue, isRunning, qpos, acts,
          datafile, tempfile, nops, restarts, ev, lastMut, outOfOrder,
          preShutdown, postLoad, csw, callbacks, heap, loaded, ttlIndexes>>

\* the documents of the datastore, as a set
StoredDocs(idxs) ==
  IF HasIndex(idxs, "_id")
  THEN {e[2] : e \in BagToSet(IndexOf(idxs, "_id").tree)}
  ELSE {}

\* the indexes of the datastore other than the one on _id, with their flags
SecondaryIndexes(idxs) ==
  {[fieldName |-> idxs[i].fieldName, unique |-> idxs[i].unique,
    sparse |-> idxs[i].sparse] :
     i \in {j \in 1..Len(idxs) : idxs[j].fieldName # "_id"}}

NoDocs == [known |-> FALSE, docs |-> {}, idx |-> {}, loaded |-> FALSE]

\* no object has been created
NoHeap == [objs |-> <<>>, stored |-> {}, caller |-> {}]

\* no call of crashSafeWriteFile is followed
NoWrite == [pc |-> "idle", prev |-> NoFile, data |-> <<>>]

Event(kind, fn, res) == [kind |-> kind, fn |-> fn, res |-> res]

\* the datafiles a datastore can be started on
d0 == [_id |-> Num("0"), name |-> Str("a")]
d1 == [_id |-> Num("1"), name |-> Str("a")]
d2 == [_id |-> Str("g2"), name |-> Str("b")]
InitFiles ==
  { NoFile,
    [exists |-> TRUE, lines |-> <<GarbageLine>>],
    [exists |-> TRUE,
     lines |-> <<DocLine(d1), DocLine(d0), DelLine(d1._id),
                 IndexCreatedLine("name", TRUE, FALSE)>>],
    [exists |-> TRUE,
     lines |-> <<DocLine(d1), DocLine(d2), DelLine(d2._id)>>] }

Init ==
  /\ inMemoryOnly \in BOOLEAN
  /\ indexes = <<IdIndex>>
  /\ ready = inMemoryOnly
  /\ buffer = <<>>
  /\ queue = <<>>
  /\ isRunning = FALSE
  /\ qpos = 1
  /\ acts = <<>>
  /\ datafile \in (IF inMemoryOnly THEN {NoFile} ELSE InitFiles)
  /\ tempfile = NoFile
  /\ nops = 0
  /\ restarts = 0
  /\ ev = Event("init", "", "")
  /\ lastMut = 0
  /\ outOfOrder = FALSE
  /\ preShutdown = NoDocs
  /\ postLoad = NoDocs
  /\ csw = NoWrite
  /\ heap = NoHeap
  /\ loaded = FALSE
  /\ ttlIndexes = {}
  /\ callbacks = {}

(***************************************************************************)
(* The tasks of the executor.  A task is what the facade pushes: the       *)
(* function to call and its arguments; op is its submission number.        *)
(***************************************************************************)
Task(op, fn, docs, batch) ==
  [op |-> op, fn |-> fn, docs |-> docs, batch |-> batch]

\* a task suspended at a file operation
Activation(op, fn, pc, data) ==
  [op |-> op, fn |-> fn, pc |-> pc, data |-> data]

\* Datastore.createNewId: the strings of the generator that are not in use;
\* the lookup throws when the datastore has no _id index
FreeGenIds(idxs) ==
  {g \in GenIds : TreeSearch(IndexOf(idxs, "_id").tree, g) = {}}

\* Datastore.prepareDocumentForInsertion of one document: a copy, with a
\* new _id when it has none
PreparedDoc(idxs, doc) ==
  IF doc._id # VUndef THEN {doc}
  ELSE {[doc EXCEPT !._id = g] : g \in FreeGenIds(idxs)}

\* Datastore.prepareDocumentForInsertion of the documents of a task
Prepared(idxs, docs) ==
  IF Len(docs) = 1 THEN {<<p>> : p \in PreparedDoc(idxs, docs[1])}
  ELSE PreparedDoc(idxs, docs[1]) \X PreparedDoc(idxs, docs[2])

\* Datastore._insert up to its return: prepare, insert in the cache,
\* persist the new state
_insert(task, idxs, mem, file) ==
  IF (\E i \in 1..Len(task.docs) : task.docs[i]._id = VUndef)
     /\ ~HasIndex(idxs, "_id")
  THEN {[idxs |-> idxs, res |-> "prepareError", act |-> <<>>]}
  ELSE {With(_insertInCache(idxs, p, task.batch), LAMBDA r :
          [idxs |-> r.idxs,
           res |-> IF ~r.ok THEN "indexError"
                   ELSE IF ~persistNewState(
                              mem, file,
                              [i \in 1..Len(p) |-> serialize(p[i])]).ok
                   THEN "persistError" ELSE "ok",
           act |-> <<>>]) : p \in Prepared(idxs, task.docs)}

\* Persistence.loadDatabase up to its first file operation
loadDatabaseStart(task, idxs, mem) ==
  {[idxs |-> resetIndexes(idxs, <<>>).idxs,
    res |-> IF mem THEN "ok" ELSE "suspended",
    act |-> IF mem THEN <<>>
            ELSE <<Activation(task.op, "load", "integrity", <<>>)>>]}

\* Persistence.persistCachedDatabase up to its first file operation
persistCachedDatabaseStart(task, idxs, mem) ==
  IF mem THEN {[idxs |-> idxs, res |-> "ok", act |-> <<>>]}
  ELSE IF ~getAllData(idxs).ok
  THEN {[idxs |-> idxs, res |-> "error", act |-> <<>>]}
  ELSE {[idxs |-> idxs, res |-> "suspended",
         act |-> <<Activation(task.op, "compact", "write",
                              CachedDatabaseLines(idxs))>>]}

\* Datastore.getCandidates returns no value (and its first step throws on
\* this), so _update, _remove and Cursor._exec throw before they touch the
\* indexes or the datafile
getCandidatesFails(task, idxs) ==
  {[idxs |-> idxs, res |-> "queryError", act |-> <<>>]}

\* the call task.fn.apply(task.this, newArguments) of the executor: the
\* outcomes of the task up to its first file operation
StartTask(task, idxs, mem, file) ==
  IF task.fn = "insert" THEN _insert(task, idxs, mem, file)
  ELSE IF task.fn = "load" THEN loadDatabaseStart(task, idxs, mem)
  ELSE IF task.fn = "compact" THEN persistCachedDatabaseStart(task, idxs, mem)
  ELSE getCandidatesFails(task, idxs)

\* the calls of the caller's callback that a task makes.  The executor
\* hands the task function a wrapper of the callback as its last argument,
\* but _insert, _update, _remove, Cursor._exec, loadDatabase and
\* persistCachedDatabase are async functions that declare no callback
\* parameter and never call it; the promise they return, with its value or
\* its rejection, is dropped by the function of the queue; and insert,
\* update, remove and exec return nothing to their caller
CallbackCalls(task, res) == {}

\* one task is started on the indexes idxs0 with the suspended tasks acts0;
\* e is the event of the step when the step is the end of a load
RunTask(task, idxs0, acts0, lm0, ooo0, e) ==
  \E o \in StartTask(task, idxs0, inMemoryOnly, datafile) :
    /\ indexes' = o.idxs
    /\ Len(acts0 \o o.act) <= MaxActs
    /\ acts' = acts0 \o o.act
    /\ lastMut' = IF o.idxs # idxs0 /\ task.op > lm0 THEN task.op ELSE lm0
    /\ outOfOrder' = (ooo0 \/ (o.idxs # idxs0 /\ task.op < lm0))
    /\ ev' = IF e.kind = "none"
             THEN Event("run", task.fn, o.res) ELSE e
    /\ callbacks' = callbacks \cup CallbackCalls(task, o.res)

NoEvent == Event("none", "", "")

\* Executor.push(task, forceQueuing) with Queue.push: a push on an idle
\* queue calls _run, which starts the first item of the queue at once
Push(task, forceQueuing) ==
  /\ nops < MaxOps
  /\ nops' = nops + 1
  /\ UNCHANGED <<loaded, heap, csw, inMemoryOnly, ttlIndexes, datafile, tempfile, restarts, preShutdown,
                 postLoad, ready>>
  /\ IF ready \/ forceQueuing
     THEN /\ queue' = Append(queue, task)
          /\ buffer' = buffer
          /\ IF isRunning
             THEN /\ UNCHANGED <<isRunning, qpos, indexes, acts, lastMut,
                                 outOfOrder, callbacks>>
                  /\ ev' = Event("push", task.fn, "queued")
             ELSE /\ isRunning' = TRUE
                  /\ qpos' = 2
                  /\ RunTask(queue'[1], indexes, acts, lastMut, outOfOrder, NoEvent)
     ELSE /\ buffer' = Append(buffer, task)
          /\ UNCHANGED <<queue, isRunning, qpos, indexes, acts, lastMut,
                         outOfOrder, callbacks>>
          /\ ev' = Event("push", task.fn, "buffered")

\* the documents insert is called with through the executor: one with a
\* caller-supplied _id and one without
PushedDocs == {[_id |-> Num("0"), name |-> Str("a")],
               [_id |-> VUndef, name |-> Str("a")]}

\* Datastore.insert(doc)
Insert ==
  \E d \in PushedDocs : Push(Task(nops + 1, "insert", <<d>>, FALSE), FALSE)

\* Datastore.update, Datastore.remove and Cursor.exec
Query ==
  \E fn \in {"update", "remove", "exec"} :
    Push(Task(nops + 1, fn, <<>>, FALSE), FALSE)

\* Datastore.loadDatabase: pushed with forceQueuing
LoadDatabase == Push(Task(nops + 1, "load", <<>>, FALSE), TRUE)

\* Persistence.compactDatafile
CompactDatafile == Push(Task(nops + 1, "compact", <<>>, FALSE), FALSE)

\* the loop of Queue._run after an await: the next item of the queue is
\* started, or the loop ends
RunNext ==
  /\ isRunning
  /\ UNCHANGED <<loaded, heap, csw, inMemoryOnly, ttlIndexes, datafile, tempfile, restarts, preShutdown,
                 postLoad, ready, buffer, queue, nops>>
  /\ IF qpos <= Len(queue)
     THEN /\ qpos' = qpos + 1
          /\ isRunning' = TRUE
          /\ RunTask(queue[qpos], indexes, acts, lastMut, outOfOrder, NoEvent)
     ELSE /\ isRunning' = FALSE
          /\ ev' = Event("idle", "", "")
          /\ UNCHANGED <<qpos, indexes, acts, lastMut, outOfOrder, callbacks>>

(***************************************************************************)
(* The file operations of the suspended tasks.  They complete in a later   *)
(* turn of the event loop, once the loop of Queue._run has gone through    *)
(* the queue.                                                              *)
(***************************************************************************)
Without(seq, i) == SubSeq(seq, 1, i - 1) \o SubSeq(seq, i + 1, Len(seq))

\* processBuffer that pushes the buffered tasks in front of the queue
processBuffer_buffersInFront(idxs0, acts0, lm0, ooo0, e) ==
  /\ ready' = TRUE
  /\ buffer' = <<>>
  /\ queue' = buffer \o queue
  /\ IF buffer # <<>> /\ ~isRunning
     THEN /\ isRunning' = TRUE
          /\ qpos' = 2
          /\ RunTask(queue'[1], idxs0, acts0, lm0, ooo0, e)
     ELSE /\ UNCHANGED <<isRunning, qpos>>
          /\ indexes' = idxs0
          /\ acts' = acts0
          /\ lastMut' = lm0
          /\ outOfOrder' = ooo0
          /\ callbacks' = callbacks
          /\ ev' = e

\* Executor.processBuffer, called at the end of a load that failed with
\* the indexes idxs0: the executor is ready, the buffered tasks are pushed
\* on the queue, and the first push on an idle queue starts its first item
processBuffer(idxs0, acts0, lm0, ooo0, e) ==
  /\ ready' = TRUE
  /\ buffer' = <<>>
  /\ queue' = queue \o buffer
  /\ IF buffer # <<>> /\ ~isRunning
     THEN /\ isRunning' = TRUE
          /\ qpos' = 2
          /\ RunTask(queue'[1], idxs0, acts0, lm0, ooo0, e)
     ELSE /\ UNCHANGED <<isRunning, qpos>>
          /\ indexes' = idxs0
          /\ acts' = acts0
          /\ lastMut' = lm0
          /\ outOfOrder' = ooo0
          /\ callbacks' = callbacks
          /\ ev' = e

\* loadDatabase: mkdir and storage.ensureDatafileIntegrity are done
LoadIntegrity(i) ==
  /\ ~isRunning
  /\ acts[i].fn = "load" /\ acts[i].pc = "integrity"
  /\ \E fs \in {ensureDatafileIntegrity([file |-> datafile,
                                           temp |-> tempfile])} :
       datafile' = fs.file /\ tempfile' = fs.temp
  /\ acts' = [acts EXCEPT ![i].pc = "read"]
  /\ ev' = Event("io", "load", "integrity")
  /\ UNCHANGED <<loaded, heap, csw, inMemoryOnly, ttlIndexes, indexes, ready, buffer, queue, isRunning, qpos,
                 nops, restarts, lastMut, outOfOrder, callbacks, preShutdown, postLoad>>

\* loadDatabase: readFile is done; the data is treated, the indexes are
\* rebuilt and the compaction is begun, all in the same turn
LoadRead(i) ==
  /\ ~isRunning
  /\ acts[i].fn = "load" /\ acts[i].pc = "read"
  /\ UNCHANGED <<heap, csw, inMemoryOnly, ttlIndexes, datafile, tempfile, nops, restarts,
                 preShutdown>>
  /\ \E t \in {treatRawData(datafile.lines)} :
     \E r \in {resetIndexes(SetIndexes(indexes, t.indexes), t.data)} :
     \E rollback \in {resetIndexes(r.idxs, <<>>).idxs} :
       LET a == acts[i]
           lm == IF r.idxs # indexes /\ a.op > lastMut THEN a.op ELSE lastMut
           ooo == outOfOrder \/ (r.idxs # indexes /\ a.op < lastMut)
       IN IF ~t.ok
          THEN /\ processBuffer(indexes, Without(acts, i), lastMut,
                                outOfOrder,
                                Event("loadDone", "load", "corrupt"))
               /\ postLoad' = postLoad
               /\ loaded' = loaded
          ELSE IF ~r.ok
          THEN /\ processBuffer(rollback, Without(acts, i), lm, ooo,
                                Event("loadDone", "load", "indexError"))
               /\ postLoad' = postLoad
               /\ loaded' = loaded
          ELSE IF ~getAllData(r.idxs).ok
          THEN /\ processBuffer(r.idxs, Without(acts, i), lm, ooo,
                                Event("loadDone", "load", "error"))
               /\ postLoad' = postLoad
               /\ loaded' = loaded
          ELSE /\ indexes' = r.idxs
               /\ acts' = [acts EXCEPT ![i].pc = "write",
                                       ![i].data = CachedDatabaseLines(r.idxs)]
               /\ lastMut' = lm
               /\ outOfOrder' = ooo
               /\ callbacks' = callbacks
               /\ ev' = Event("io", "load", "replayed")
               /\ postLoad' = IF preShutdown.known /\ ~postLoad.known
                              THEN [known |-> TRUE,
                                    docs |-> StoredDocs(r.idxs),
                                    idx |-> SecondaryIndexes(r.idxs),
                                    loaded |-> TRUE]
                              ELSE postLoad
               /\ loaded' = TRUE
               /\ UNCHANGED <<ready, buffer, queue, isRunning, qpos>>

\* crashSafeWriteFile: the data is written to the temporary file
WriteTemp(i) ==
  /\ ~isRunning
  /\ acts[i].pc = "write"
  /\ tempfile' = [exists |-> TRUE, lines |-> acts[i].data]
  /\ acts' = [acts EXCEPT ![i].pc = "rename"]
  /\ ev' = Event("io", acts[i].fn, "written")
  /\ UNCHANGED <<loaded, heap, csw, inMemoryOnly, ttlIndexes, indexes, ready, buffer, queue, isRunning, qpos,
                 datafile, nops, restarts, lastMut, outOfOrder, callbacks, preShutdown,
                 postLoad>>

\* crashSafeWriteFile: the temporary file is renamed to the datafile and
\* the task ends; the rename fails when the temporary file is gone
Rename(i) ==
  /\ ~isRunning
  /\ acts[i].pc = "rename"
  /\ UNCHANGED <<loaded, heap, csw, inMemoryOnly, ttlIndexes, nops, restarts, preShutdown, postLoad>>
  /\ IF tempfile.exists
     THEN /\ datafile' = tempfile
          /\ tempfile' = NoFile
          /\ acts' = Without(acts, i)
          /\ ev' = IF acts[i].fn = "load"
                   THEN Event("loadDone", "load", "ok")
                   ELSE Event("io", "compact", "ok")
          /\ UNCHANGED <<indexes, ready, buffer, queue, isRunning, qpos,
                         lastMut, outOfOrder, callbacks>>
     ELSE /\ UNCHANGED <<datafile, tempfile>>
          /\ IF acts[i].fn = "load"
             THEN processBuffer(indexes, Without(acts, i), lastMut,
                                outOfOrder,
                                Event("loadDone", "load", "ioError"))
             ELSE /\ acts' = Without(acts, i)
                  /\ ev' = Event("io", "compact", "ioError")
                  /\ UNCHANGED <<indexes, ready, buffer, queue, isRunning,
                                 qpos, lastMut, outOfOrder, callbacks>>

\* a storage primitive of a suspended task fails
IoError(i) ==
  /\ ~isRunning
  /\ UNCHANGED <<loaded, heap, csw, inMemoryOnly, ttlIndexes, datafile, tempfile, nops, restarts,
                 preShutdown, postLoad>>
  /\ IF acts[i].fn = "load"
     THEN processBuffer(indexes, Without(acts, i), lastMut, outOfOrder,
                        Event("loadDone", "load", "ioError"))
     ELSE /\ acts' = Without(acts, i)
          /\ ev' = Event("io", "compact", "ioError")
          /\ UNCHANGED <<indexes, ready, buffer, queue, isRunning, qpos,
                         lastMut, outOfOrder, callbacks>>

(***************************************************************************)
(* The methods of the datastore that are called directly, outside of the   *)
(* executor.                                                               *)
(***************************************************************************)
DirectTtl(idxs, ttl, fn, res) ==
  /\ nops < MaxCalls
  /\ nops' = nops + 1
  /\ indexes' = idxs
  /\ ttlIndexes' = ttl
  /\ ev' = Event("call", fn, res)
  /\ UNCHANGED <<loaded, heap, csw, inMemoryOnly, ready, buffer, queue, isRunning, qpos, acts,
                 datafile, tempfile, restarts, lastMut, outOfOrder, callbacks,
                 preShutdown, postLoad>>

\* a call that leaves the registrations of ttlIndexes as they are
Direct(idxs, fn, res) == DirectTtl(idxs, ttlIndexes, fn, res)

\* ensureIndex that keeps the new index when filling it fails
ensureIndex_keepsIndex(idxs, fieldName, unique, sparse, mem, file) ==
  IF HasIndex(idxs, fieldName) THEN [res |-> "exists", idxs |-> idxs]
  ELSE With(Append(idxs, NewIndex(fieldName, unique, sparse)), LAMBDA added :
       With(getAllData(added), LAMBDA all :
       With(insertMultipleDocs(added[Len(added)], all.docs), LAMBDA r :
            IF ~all.ok \/ ~r.ok
            THEN [res |-> "indexError", idxs |-> added]
            ELSE [res |-> "ok", idxs |-> [added EXCEPT ![Len(added)] = r.idx]])))

\* Datastore.ensureIndex({fieldName, unique, sparse})
ensureIndex(idxs, fieldName, unique, sparse, mem, file) ==
  IF HasIndex(idxs, fieldName) THEN [res |-> "exists", idxs |-> idxs]
  ELSE With(Append(idxs, NewIndex(fieldName, unique, sparse)), LAMBDA added :
       With(getAllData(added), LAMBDA all :
       With(insertMultipleDocs(added[Len(added)], all.docs), LAMBDA r :
            IF ~all.ok \/ ~r.ok
            THEN [res |-> "indexError", idxs |-> DeleteIndex(added, fieldName)]
            ELSE [res |-> IF persistNewState(mem, file,
                               <<IndexCreatedLine(fieldName, unique, sparse)>>).ok
                          THEN "ok" ELSE "persistError",
                  idxs |-> [added EXCEPT ![Len(added)] = r.idx]])))

EnsureIndexOn(f) ==
  \E u \in BOOLEAN, sp \in BOOLEAN :
    \E r \in {ensureIndex(indexes, f, u, sp, inMemoryOnly, datafile)} :
      Direct(r.idxs, "ensureIndex", r.res)

EnsureIndex == \E f \in Fields : EnsureIndexOn(f)

\* Datastore.removeIndex(fieldName)
removeIndex(idxs, fieldName, mem, file) ==
  [res |-> IF persistNewState(mem, file, <<IndexRemovedLine(fieldName)>>).ok
           THEN "ok" ELSE "persistError",
   idxs |-> DeleteIndex(idxs, fieldName)]

RemoveIndex ==
  \E f \in Fields :
    \E r \in {removeIndex(indexes, f, inMemoryOnly, datafile)} :
      Direct(r.idxs, "removeIndex", r.res)

\* the arguments of updateIndexes: one pair, or an array of pairs, of a
\* stored document and a new version of it with the same _id
PairsOf(idxs) ==
  {[oldDoc |-> d, newDoc |-> [d EXCEPT !.name = n]] :
     d \in StoredDocs(idxs), n \in Names}

UpdateArgs(idxs) ==
  {[multi |-> FALSE, pairs |-> <<p>>] : p \in PairsOf(idxs)}
  \cup {[multi |-> TRUE, pairs |-> <<pq[1], pq[2]>>] :
          pq \in {x \in PairsOf(idxs) \X PairsOf(idxs) :
                    /\ x[1].oldDoc # x[2].oldDoc
                    /\ x[1].newDoc.name \in {Str("a"), Str("b")}}}

\* Datastore.updateIndexes(oldDoc, newDoc) and updateIndexes(pairs)
UpdateIndexes ==
  \E upd \in UpdateArgs(indexes) :
    \E r \in {updateIndexes(indexes, upd)} :
      Direct(r.idxs, "updateIndexes", IF r.ok THEN "ok" ELSE "indexError")

\* Datastore.removeFromIndexes(doc) of a stored document
RemoveFromIndexes ==
  \E d \in StoredDocs(indexes) :
    \E r \in {removeFromIndexes(indexes, d)} :
      Direct(r.idxs, "removeFromIndexes", IF r.ok THEN "ok" ELSE "error")

\* the process ends with no task in flight and a new Datastore is
\* constructed on the same filename
Restart ==
  /\ ~inMemoryOnly
  /\ acts = <<>> /\ ~isRunning
  /\ restarts < MaxRestarts
  /\ restarts' = restarts + 1
  /\ indexes' = <<IdIndex>>
  /\ ready' = FALSE
  /\ buffer' = <<>>
  /\ queue' = <<>>
  /\ qpos' = 1
  /\ preShutdown' = [known |-> TRUE, docs |-> StoredDocs(indexes),
                     idx |-> SecondaryIndexes(indexes), loaded |-> loaded]
  /\ loaded' = FALSE
  /\ postLoad' = NoDocs
  /\ ttlIndexes' = {}
  /\ ev' = Event("restart", "", "")
  /\ UNCHANGED <<heap, csw, inMemoryOnly, isRunning, acts, datafile, tempfile, nops,
                 lastMut, outOfOrder, callbacks>>

\* the process is killed while a rewrite of the datafile is between the
\* write of the temporary file and the rename, and a new Datastore is
\* constructed on the same filename; csw keeps the killed call
Kill(i) ==
  /\ acts[i].pc = "rename"
  /\ restarts < MaxRestarts
  /\ restarts' = restarts + 1
  /\ loaded' = FALSE
  /\ heap' = heap
  /\ csw' = [pc |-> "crashed", prev |-> datafile, data |-> acts[i].data]
  /\ indexes' = <<IdIndex>>
  /\ ready' = FALSE
  /\ buffer' = <<>>
  /\ queue' = <<>>
  /\ qpos' = 1
  /\ isRunning' = FALSE
  /\ acts' = <<>>
  /\ ttlIndexes' = {}
  /\ ev' = Event("kill", "", "")
  /\ UNCHANGED <<inMemoryOnly, datafile, tempfile, nops, lastMut, outOfOrder, callbacks,
                 preShutdown, postLoad>>

\* the documents insert is called with: one document, or a batch of two
BatchDocs == [_id : {VUndef, Num("1")}, name : {Str("a"), Str("b")}]
FirstDocs == [_id : {VUndef, Num("1")}, name : {Str("a")}]

\* Datastore._insert(doc) and Datastore._insert([doc, doc]), as the
\* executor calls them
InsertCall ==
  \E t \in {Task(0, "insert", <<d>>, FALSE) : d \in InputDocs}
           \cup {Task(0, "insert", <<b[1], b[2]>>, TRUE) :
                   b \in FirstDocs \X BatchDocs} :
    \E o \in _insert(t, indexes, inMemoryOnly, datafile) :
      Direct(o.idxs, IF t.batch THEN "insertBatch" ELSE "insert", o.res)

\* Datastore.resetIndexes(), as loadDatabase calls it first
ResetIndexes == Direct(resetIndexes(indexes, <<>>).idxs, "resetIndexes", "ok")

Next ==
  \/ Insert
  \/ Query
  \/ LoadDatabase
  \/ CompactDatafile
  \/ RunNext
  \/ \E i \in 1..Len(acts) : LoadIntegrity(i)
  \/ \E i \in 1..Len(acts) : LoadRead(i)
  \/ \E i \in 1..Len(acts) : WriteTemp(i)
  \/ \E i \in 1..Len(acts) : Rename(i)
  \/ \E i \in 1..Len(acts) : IoError(i)
  \/ Restart
  \/ \E i \in 1..Len(acts) : Kill(i)

NextExec ==
  \/ Insert
  \/ Query
  \/ LoadDatabase
  \/ RunNext
  \/ \E i \in 1..Len(acts) : LoadIntegrity(i)
  \/ \E i \in 1..Len(acts) : LoadRead(i)
  \/ \E i \in 1..Len(acts) : WriteTemp(i)
  \/ \E i \in 1..Len(acts) : Rename(i)
  \/ \E i \in 1..Len(acts) : IoError(i)

\* the executor with the tasks of the facade and the loads
SpecExec == Init /\ [][NextExec]_vars

\* the facade, the executor and the persistence
Spec == Init /\ [][Next]_vars

\* Datastore.ensureIndex and Datastore.removeIndex as the caller calls
\* them beside the executor: they are async methods of the datastore that
\* push no task
EnsureIndexCall == nops < MaxOps /\ EnsureIndex

RemoveIndexCall == nops < MaxOps /\ RemoveIndex

NextFacade ==
  \/ Next
  \/ EnsureIndexCall
  \/ RemoveIndexCall

\* the executor with the calls of ensureIndex and removeIndex
SpecFacade == Init /\ [][NextFacade]_vars

NextIdx ==
  \/ InsertCall
  \/ EnsureIndex
  \/ RemoveIndex
  \/ UpdateIndexes
  \/ RemoveFromIndexes
  \/ ResetIndexes

InitIdx == Init /\ datafile = NoFile

\* the operations on the index set, called one after the other
SpecIdx == InitIdx /\ [][NextIdx]_vars

NextData ==
  \/ InsertCall
  \/ UpdateIndexes
  \/ RemoveFromIndexes
  \/ EnsureIndexOn("name")

\* the operations on the documents, with or without an index on name
SpecData == InitIdx /\ [][NextData]_vars

(***************************************************************************)
(* model.modify and Datastore._tryUpdate.  An update expression is a       *)
(* replacement (plain fields), one modifier on one field, or a mix of      *)
(* modifiers and plain fields.                                             *)
(***************************************************************************)
\* a value that is an object with a key that begins with $
BadObject == [kind |-> "object", repr |-> "$bad"]

Replacement(id, name) ==
  [kind |-> "replace", _id |-> id, name |-> name,
   mod |-> "", field |-> "", value |-> VUndef]

Modifier(mod, field, value) ==
  [kind |-> "modifier", _id |-> VUndef, name |-> VUndef,
   mod |-> mod, field |-> field, value |-> value]

Mixed ==
  [kind |-> "mixed", _id |-> VUndef, name |-> Str("a"),
   mod |-> "$set", field |-> "name", value |-> Str("b")]

\* model.checkObject of a document: a key that begins with $ is refused
checkObject(doc) == doc.name # BadObject /\ doc._id # BadObject

\* the last step modifier functions $set, $unset and $inc on one field
lastStepModifier(mod, obj, field, value) ==
  IF mod = "$set" THEN [ok |-> TRUE, doc |-> [obj EXCEPT ![field] = value]]
  ELSE IF mod = "$unset"
  THEN [ok |-> TRUE, doc |-> [obj EXCEPT ![field] = VUndef]]
  ELSE IF value.kind # "number" THEN [ok |-> FALSE, doc |-> obj]
  ELSE IF obj[field].kind = "number"
  THEN [ok |-> TRUE,
        doc |-> [obj EXCEPT ![field] =
                   IF value = Num("0") THEN @
                   ELSE IF @ = Num("0") THEN value ELSE Num("2")]]
  ELSE IF obj[field] = VUndef
  THEN [ok |-> TRUE, doc |-> [obj EXCEPT ![field] = value]]
  ELSE [ok |-> FALSE, doc |-> obj]

\* the modifiers model.modify knows
modifierFunctions == {"$set", "$unset", "$inc"}

\* modify that does not compare the _id of the result with the old one
modify_keepsNewId(obj, updateQuery) ==
  IF updateQuery.kind = "mixed" THEN [ok |-> FALSE, doc |-> obj]
  ELSE IF updateQuery.kind = "replace"
  THEN With([_id |-> IF updateQuery._id # VUndef THEN updateQuery._id
                     ELSE obj._id,
             name |-> updateQuery.name],
            LAMBDA newDoc : [ok |-> checkObject(newDoc), doc |-> newDoc])
  ELSE IF updateQuery.mod \notin modifierFunctions
  THEN [ok |-> FALSE, doc |-> obj]
  ELSE With(lastStepModifier(updateQuery.mod, obj, updateQuery.field,
                             updateQuery.value),
            LAMBDA m : [ok |-> m.ok /\ checkObject(m.doc), doc |-> m.doc])

\* model.modify(obj, updateQuery): the new version of obj, or a throw
modify(obj, updateQuery) ==
  IF updateQuery.kind \in {"replace", "mixed"}
     /\ updateQuery._id # VUndef /\ updateQuery._id # obj._id
  THEN [ok |-> FALSE, doc |-> obj]
  ELSE IF updateQuery.kind = "mixed" THEN [ok |-> FALSE, doc |-> obj]
  ELSE IF updateQuery.kind = "replace"
  THEN With([_id |-> obj._id, name |-> updateQuery.name],
            LAMBDA newDoc : [ok |-> checkObject(newDoc), doc |-> newDoc])
  ELSE IF updateQuery.mod \notin modifierFunctions
  THEN [ok |-> FALSE, doc |-> obj]
  ELSE With(lastStepModifier(updateQuery.mod, obj, updateQuery.field,
                             updateQuery.value),
            LAMBDA m : [ok |-> m.ok /\ checkObject(m.doc)
                                /\ m.doc._id = obj._id,
                        doc |-> m.doc])

\* model.match(doc, query) for the queries {} and { name: value }
match(doc, query) ==
  \/ query = VUndef
  \/ doc.name = query
  \/ doc.name = Arr("a,b") /\ query \in {Str("a"), Str("b")}

\* the loop of _tryUpdate that prepares the modifications: a throw of
\* modify ends it
RECURSIVE PrepareUpdate(_, _, _, _, _)
PrepareUpdate(candidates, query, updateQuery, multi, modifications) ==
  IF candidates = <<>> THEN [ok |-> TRUE, pairs |-> modifications]
  ELSE IF match(Head(candidates), query) /\ (multi \/ modifications = <<>>)
  THEN With(modify(Head(candidates), updateQuery), LAMBDA m :
         IF ~m.ok THEN [ok |-> FALSE, pairs |-> <<>>]
         ELSE PrepareUpdate(Tail(candidates), query, updateQuery, multi,
                            Append(modifications,
                                   [oldDoc |-> Head(candidates),
                                    newDoc |-> m.doc])))
  ELSE PrepareUpdate(Tail(candidates), query, updateQuery, multi,
                     modifications)

\* Datastore.getCandidates(query): its steps are plain functions in which
\* this is undefined, and it has no return statement; the caller gets a
\* rejection or undefined, never an array
getCandidates(idxs, query) == [ok |-> FALSE, docs |-> <<>>]

\* Datastore._tryUpdate from the candidates on: prepare the modifications,
\* change the indexes, persist the new versions
_tryUpdate(candidates, query, updateQuery, multi, idxs, mem, file) ==
  IF ~candidates.ok THEN [res |-> "queryError", idxs |-> idxs]
  ELSE With(PrepareUpdate(candidates.docs, query, updateQuery, multi, <<>>),
            LAMBDA p :
    IF ~p.ok THEN [res |-> "modifyError", idxs |-> idxs]
    ELSE With(updateIndexes(idxs, [multi |-> TRUE, pairs |-> p.pairs]),
              LAMBDA r :
           [res |-> IF ~r.ok THEN "indexError"
                    ELSE IF ~persistNewState(
                               mem, file,
                               [i \in 1..Len(p.pairs) |->
                                  serialize(p.pairs[i].newDoc)]).ok
                    THEN "persistError" ELSE "ok",
            idxs |-> r.idxs]))

\* the update expressions and the queries update is called with
UpdateQueries ==
  { Replacement(VUndef, Str("b")), Replacement(Num("1"), Str("b")),
    Replacement(Num("0"), Str("b")), Replacement(VUndef, BadObject),
    Modifier("$set", "name", Str("b")), Modifier("$set", "name", BadObject),
    Modifier("$set", "_id", Num("0")), Modifier("$unset", "_id", VUndef),
    Modifier("$unset", "name", VUndef), Modifier("$inc", "name", Num("0")),
    Modifier("$inc", "name", Str("a")), Modifier("$foo", "name", Str("b")),
    Mixed }

Queries == {VUndef, Str("a")}

\* Datastore._update(query, updateQuery, {multi}) without upsert, as the
\* executor calls it
UpdateCall ==
  \E q \in Queries, u \in UpdateQueries, multi \in BOOLEAN :
    \E r \in {_tryUpdate(getCandidates(indexes, q), q, u, multi, indexes,
                         inMemoryOnly, datafile)} :
      Direct(r.idxs, "update", r.res)

\* the part of _tryUpdate that follows getCandidates, on the documents of
\* the datastore as candidates
TryUpdateOnCandidates ==
  \E q \in Queries, u \in UpdateQueries, multi \in BOOLEAN :
    \E r \in {_tryUpdate(getAllData(indexes), q, u, multi, indexes,
                         inMemoryOnly, datafile)} :
      Direct(r.idxs, "tryUpdate", r.res)

NextUpd ==
  \/ InsertCall
  \/ EnsureIndexOn("name")
  \/ UpdateCall
  \/ TryUpdateOnCandidates

\* inserts and updates, with or without an index on name
SpecUpd == InitIdx /\ [][NextUpd]_vars

(***************************************************************************)
(* update with the option upsert.  _update calls _tryCreate and then       *)
(* _tryUpdate in every case; _tryCreate looks for one matching document    *)
(* with Cursor._exec and inserts only from inside its catch block.         *)
(***************************************************************************)
\* model.deepCopy(query, true) of the queries {} and { name: value }: the
\* literal fields of the query, which has no _id
deepCopy(query) == [_id |-> VUndef, name |-> query]

\* Datastore._tryCreate(query, updateQuery, true) from the candidates of
\* cursor.limit(1)._exec() on: nothing is done when a document matches; a
\* plain updateQuery passes checkObject and the function ends without
\* inserting; otherwise the query modified by updateQuery is inserted
_tryCreate(candidates, query, updateQuery, idxs, mem, file) ==
  IF ~candidates.ok THEN {[res |-> "queryError", idxs |-> idxs]}
  ELSE IF \E i \in 1..Len(candidates.docs) : match(candidates.docs[i], query)
  THEN {[res |-> "found", idxs |-> idxs]}
  ELSE IF updateQuery.kind = "replace" /\ checkObject(updateQuery)
  THEN {[res |-> "notInserted", idxs |-> idxs]}
  ELSE With(modify(deepCopy(query), updateQuery), LAMBDA m :
         IF ~m.ok THEN {[res |-> "modifyError", idxs |-> idxs]}
         ELSE {[res |-> IF o.res = "ok" THEN "inserted" ELSE o.res,
                idxs |-> o.idxs] :
                 o \in _insert(Task(0, "insert", <<m.doc>>, FALSE),
                               idxs, mem, file)})

\* the results with which _tryCreate returns; the others are throws
Created == {"found", "notInserted", "inserted"}

\* the candidates _tryCreate and _tryUpdate work on: the result of
\* getCandidates, or the documents of the datastore
CandidatesOf(source, idxs, query) ==
  IF source = "getCandidates" THEN getCandidates(idxs, query)
  ELSE getAllData(idxs)

\* Datastore._update(query, updateQuery, {multi, upsert: true}) on the
\* candidates of source: _tryUpdate follows whenever _tryCreate returns
_update(source, query, updateQuery, multi, idxs, mem, file) ==
  UNION {IF c.res \notin Created THEN {[res |-> c.res, idxs |-> c.idxs]}
         ELSE {_tryUpdate(CandidatesOf(source, c.idxs, query), query,
                          updateQuery, multi, c.idxs, mem, file)} :
           c \in _tryCreate(CandidatesOf(source, idxs, query), query,
                            updateQuery, idxs, mem, file)}

\* the update expressions upsert is called with
UpsertQueries == UpdateQueries \cup {Modifier("$inc", "name", Num("1"))}

\* Datastore._update with upsert, as the executor calls it
UpsertCall ==
  \E q \in Queries, u \in UpsertQueries, multi \in BOOLEAN :
    \E r \in _update("getCandidates", q, u, multi, indexes, inMemoryOnly,
                     datafile) :
      Direct(r.idxs, "upsert", r.res)

\* _tryCreate and _tryUpdate from the candidates on, on the documents of
\* the datastore as candidates
UpsertOnCandidates ==
  \E q \in Queries, u \in UpsertQueries, multi \in BOOLEAN :
    \E r \in _update("getAllData", q, u, multi, indexes, inMemoryOnly,
                     datafile) :
      Direct(r.idxs, "tryUpsert", r.res)

NextUps ==
  \/ InsertCall
  \/ UpsertCall
  \/ UpsertOnCandidates

\* inserts and updates with upsert
SpecUps == InitIdx /\ [][NextUps]_vars

(***************************************************************************)
(* The objects of the datastore and of its caller.  heap.objs holds the    *)
(* objects, a reference is a position in it; a document { _id, name } has  *)
(* in name a reference to a nested object { v } (0: no such field).        *)
(* heap.stored holds the documents of the _id index, heap.caller the       *)
(* objects the caller has created or was handed.                           *)
(***************************************************************************)
MaxObjs == 8

Leaf(v) == [t |-> "leaf", _id |-> 0, name |-> 0, v |-> v]
DocObj(id, name) == [t |-> "doc", _id |-> id, name |-> name, v |-> 0]

\* the objects that can be reached from the references refs
Reach(objs, refs) == refs \cup ({objs[r].name : r \in refs} \ {0})

\* model.deepCopy(obj) of a document: a new object for the document and
\* one for its nested object
deepCopyObj(objs, r) ==
  IF objs[r].name = 0
  THEN [objs |-> Append(objs, objs[r]), ref |-> Len(objs) + 1]
  ELSE [objs |-> objs \o <<objs[objs[r].name],
                           [objs[r] EXCEPT !.name = Len(objs) + 1]>>,
        ref |-> Len(objs) + 2]

\* a call of the facade that leaves the heap as h
HeapCall(h, fn, res) ==
  /\ nops < MaxCalls
  /\ Len(heap.objs) <= MaxObjs
  /\ nops' = nops + 1
  /\ heap' = h
  /\ ev' = Event("call", fn, res)
  /\ UNCHANGED <<loaded, csw, inMemoryOnly, ttlIndexes, indexes, ready, buffer, queue, isRunning,
                 qpos, acts, datafile, tempfile, restarts, lastMut,
                 outOfOrder, callbacks, preShutdown, postLoad>>

\* the caller builds { _id: id, name: { v: 0 } } and inserts it: _insert
\* stores a deep copy (prepareDocumentForInsertion); the deep copy it
\* returns is dropped by the executor
InsertObject ==
  \E id \in 1..2 :
    \E o1 \in {heap.objs \o <<Leaf(0), DocObj(id, Len(heap.objs) + 1)>>} :
      \E c \in {deepCopyObj(o1, Len(o1))} :
        IF \E r \in heap.stored : heap.objs[r]._id = id
        THEN HeapCall([heap EXCEPT !.objs = o1,
                                   !.caller = @ \cup {Len(o1)}],
                      "insertObject", "indexError")
        ELSE HeapCall([objs |-> c.objs,
                       stored |-> heap.stored \cup {c.ref},
                       caller |-> heap.caller \cup {Len(o1)}],
                      "insertObject", "ok")

\* the projections of a cursor: none, { name: 1 }, { name: 0 }, { other: 0 }
Projections == {"none", "pick", "omitName", "omitOther"}

\* Cursor.project of one candidate: without projection the candidate
\* itself; a pick projection builds modify({}, { $set: { name: value } }),
\* where $set assigns the value it is given; an omit projection builds
\* modify(candidate, { $unset: ... }), which works on a deep copy
projectOne(objs, r, projection) ==
  IF projection = "none" THEN [objs |-> objs, ref |-> r]
  ELSE IF projection = "pick"
  THEN [objs |-> Append(objs, DocObj(objs[r]._id, objs[r].name)),
        ref |-> Len(objs) + 1]
  ELSE With(deepCopyObj(objs, r), LAMBDA c :
         IF projection = "omitOther" THEN c
         ELSE [objs |-> [c.objs EXCEPT ![c.ref].name = 0], ref |-> c.ref])

\* Cursor.project of the candidates
RECURSIVE project(_, _, _, _)
project(objs, candidates, projection, res) ==
  IF candidates = {} THEN [objs |-> objs, refs |-> res]
  ELSE With(CHOOSE r \in candidates : \A s \in candidates : r <= s,
            LAMBDA r : With(projectOne(objs, r, projection), LAMBDA p :
              project(p.objs, candidates \ {r}, projection,
                      res \cup {p.ref})))

\* Cursor.exec(): _exec fails in getCandidates and hands nothing out
ExecObjects == HeapCall(heap, "execObjects", "queryError")

\* Cursor._exec from the candidates on, on the documents of the datastore
\* as candidates; the caller is handed its result
ExecOnStored ==
  \E projection \in Projections :
    \E p \in {project(heap.objs, heap.stored, projection, {})} :
      HeapCall([heap EXCEPT !.objs = p.objs, !.caller = @ \cup p.refs],
               "tryExecObjects", "ok")

\* update({}, ...): _tryUpdate fails in getCandidates and stores nothing
UpdateObjects == HeapCall(heap, "updateObjects", "queryError")

\* _tryUpdate from the candidates on, on the first document of the
\* datastore, with the update expression { $set: { name: { v: 0 } } } or
\* the replacement { name: { v: 0 } } built by the caller: $set assigns
\* the caller's object to a deep copy of the document, a replacement is
\* deep copied; the document handed out with returnUpdatedDocs is a deep
\* copy of the new one
UpdateOnStored ==
  \E kind \in {"$set", "replace"}, returnUpdatedDocs \in BOOLEAN :
    /\ heap.stored # {}
    /\ \E old \in {CHOOSE r \in heap.stored : \A s \in heap.stored : r <= s} :
       \E o1 \in {heap.objs \o <<Leaf(0), DocObj(0, Len(heap.objs) + 1)>>} :
       \E new \in {IF kind = "$set"
                   THEN With(deepCopyObj(o1, old), LAMBDA c :
                          [objs |-> [c.objs EXCEPT
                                       ![c.ref].name = Len(o1) - 1],
                           ref |-> c.ref])
                   ELSE With(deepCopyObj(o1, Len(o1)), LAMBDA c :
                          [objs |-> [c.objs EXCEPT
                                       ![c.ref]._id = o1[old]._id],
                           ref |-> c.ref])} :
       \E ret \in {IF returnUpdatedDocs THEN deepCopyObj(new.objs, new.ref)
                   ELSE [objs |-> new.objs, ref |-> 0]} :
         HeapCall([objs |-> ret.objs,
                   stored |-> (heap.stored \ {old}) \cup {new.ref},
                   caller |-> heap.caller \cup {Len(o1)}
                                \cup ({ret.ref} \ {0})],
                  "tryUpdateObjects", "ok")

\* the caller changes a nested object it can reach
CallerMutates ==
  \E r \in Reach(heap.objs, heap.caller) :
    /\ heap.objs[r].t = "leaf"
    /\ heap.objs[r].v = 0
    /\ heap' = [heap EXCEPT !.objs[r].v = 1]
    /\ ev' = Event("mutate", "", "")
    /\ UNCHANGED <<loaded, csw, inMemoryOnly, ttlIndexes, indexes, ready, buffer, queue,
                   isRunning, qpos, acts, datafile, tempfile, nops, restarts,
                   lastMut, outOfOrder, callbacks, preShutdown, postLoad>>

NextObj ==
  \/ InsertObject
  \/ ExecObjects
  \/ ExecOnStored
  \/ UpdateObjects
  \/ UpdateOnStored
  \/ CallerMutates

\* the datastore and its caller, object by object
SpecObj == InitIdx /\ [][NextObj]_vars

(***************************************************************************)
(* Persistence.treatRawData on the raw data of a datafile: the lines of    *)
(* the file, and whether the last one ends with a newline.                 *)
(***************************************************************************)
MaxLines == 10

\* the raw data treatRawData is given: up to MaxLines lines, each a
\* document or a line that does not deserialize; "" is the empty file
RawData ==
  {r \in [lines : UNION {[1..n -> {DocLine(d1), GarbageLine}] :
                           n \in 0..MaxLines},
          terminated : BOOLEAN] :
     r.lines # <<>> \/ r.terminated}

\* rawData.split("\n"): after a last newline comes one blank piece, which
\* does not deserialize
split(raw) ==
  IF raw.terminated THEN Append(raw.lines, GarbageLine) ELSE raw.lines

\* Persistence.treatRawData(rawData): corruptItems starts at -1 and counts
\* every piece that fails to deserialize; the load is refused when
\* corruptItems / data.length is above corruptAlertThreshold
treatData(raw) ==
  With(TreatLoop([dataById |-> <<>>, indexes |-> <<>>, corruptItems |-> -1],
                 split(raw)),
       LAMBDA st :
         [ok |-> ~ (st.corruptItems * ThresholdDen
                      > ThresholdNum * Len(split(raw))),
          data |-> [i \in 1..Len(st.dataById) |-> st.dataById[i].v],
          indexes |-> [i \in 1..Len(st.indexes) |-> st.indexes[i].v]])

InitRaw ==
  /\ inMemoryOnly = FALSE
  /\ indexes = <<IdIndex>>
  /\ ready = FALSE
  /\ buffer = <<>>
  /\ queue = <<>>
  /\ isRunning = FALSE
  /\ qpos = 1
  /\ acts = <<>>
  /\ \E raw \in RawData :
       datafile = [exists |-> TRUE, lines |-> raw.lines,
                   terminated |-> raw.terminated]
  /\ tempfile = NoFile
  /\ nops = 0
  /\ restarts = 0
  /\ ev = Event("init", "", "")
  /\ lastMut = 0
  /\ outOfOrder = FALSE
  /\ preShutdown = NoDocs
  /\ postLoad = NoDocs
  /\ csw = NoWrite
  /\ callbacks = {}
  /\ heap = NoHeap
  /\ loaded = FALSE
  /\ ttlIndexes = {}

\* treatRawData is applied to the raw data of the datafile
TreatRaw ==
  /\ ev.kind = "init"
  /\ \E t \in {treatData(datafile)} :
       /\ ev' = Event("treat", "load", IF t.ok THEN "ok" ELSE "corrupt")
       /\ postLoad' = [known |-> t.ok,
                       docs |-> {t.data[i] : i \in 1..Len(t.data)},
                       idx |-> {}, loaded |-> t.ok]
  /\ UNCHANGED <<inMemoryOnly, ttlIndexes, indexes, ready, buffer, queue, isRunning, qpos,
                 acts, datafile, tempfile, nops, restarts, lastMut,
                 outOfOrder, preShutdown, csw, callbacks, heap, loaded>>

NextRaw == TreatRaw

\* treatRawData on every raw data of up to MaxLines lines
SpecRaw == InitRaw /\ [][NextRaw]_vars

(***************************************************************************)
(* Documents that expire.  ensureIndex with expireAfterSeconds registers   *)
(* the field in ttlIndexes; the date "old" is more than that many seconds  *)
(* before now, "new" is not.                                               *)
(***************************************************************************)
\* the test of getCandidates on a document: a registered field holds a
\* date and Date.now() is beyond it by more than the registered seconds
Expired(ttl, doc) ==
  \E f \in ttl : GetDotValue(doc, f) = Date("old")

\* the documents inserted: with an old date, a recent one, or no date
DatedDocs ==
  [_id : {Num("1"), VUndef}, name : {Date("old"), Date("new"), Str("a")}]

InsertDated ==
  \E d \in DatedDocs :
    \E o \in _insert(Task(0, "insert", <<d>>, FALSE), indexes, inMemoryOnly,
                     datafile) :
      Direct(o.idxs, "insert", o.res)

\* Datastore.ensureIndex(options) with its tests of fieldName and of
\* expireAfterSeconds: the registration is made before the index is
\* created and filled; fieldName "" stands for options without fieldName
ensureIndexOptions(idxs, ttl, fieldName, unique, sparse, expire, mem, file) ==
  IF fieldName = ""
  THEN [res |-> "missingFieldName", idxs |-> idxs, ttl |-> ttl]
  ELSE With(ensureIndex(idxs, fieldName, unique, sparse, mem, file),
            LAMBDA r :
              [res |-> r.res, idxs |-> r.idxs,
               ttl |-> IF r.res # "exists" /\ expire
                       THEN ttl \cup {fieldName} ELSE ttl])

\* ensureIndex({ fieldName, unique, sparse, expireAfterSeconds }) on name,
\* with or without fieldName and expireAfterSeconds
EnsureTtlIndex ==
  \E f \in {"", "name"}, u \in BOOLEAN, sp \in BOOLEAN, expire \in BOOLEAN :
    \E r \in {ensureIndexOptions(indexes, ttlIndexes, f, u, sp, expire,
                                 inMemoryOnly, datafile)} :
      DirectTtl(r.idxs, r.ttl, "ensureIndex", r.res)

\* Cursor._exec(): the matches among the candidates; it throws when
\* getCandidates has given no array
_exec(idxs, query) ==
  With(getCandidates(idxs, query), LAMBDA c :
    IF ~c.ok THEN [res |-> "queryError", docs |-> <<>>, idxs |-> idxs]
    ELSE [res |-> "ok",
          docs |-> SelectSeq(c.docs, LAMBDA d : match(d, query)),
          idxs |-> idxs])

\* Datastore._remove(query, {multi}): the matches among the candidates of
\* getCandidates(query, true) are taken out of the indexes
RECURSIVE RemoveAll(_, _)
RemoveAll(idxs, docs) ==
  IF docs = <<>> THEN idxs
  ELSE RemoveAll(removeFromIndexes(idxs, Head(docs)), Tail(docs))

_remove(idxs, query, multi, mem, file) ==
  With(getCandidates(idxs, query), LAMBDA c :
    IF ~c.ok THEN [res |-> "queryError", idxs |-> idxs]
    ELSE With(SelectSeq(c.docs, LAMBDA d : match(d, query)), LAMBDA ms :
           With(IF multi \/ ms = <<>> THEN ms ELSE <<Head(ms)>>, LAMBDA rs :
             [res |-> IF persistNewState(mem, file,
                           [i \in 1..Len(rs) |-> DelLine(rs[i]._id)]).ok
                      THEN "ok" ELSE "persistError",
              idxs |-> RemoveAll(idxs, rs)])))

\* find(query).exec(), as the executor calls it
FindCall ==
  \E q \in Queries :
    \E r \in {_exec(indexes, q)} : Direct(r.idxs, "find", r.res)

\* remove(query, {multi}), as the executor calls it
RemoveCall ==
  \E q \in Queries, multi \in BOOLEAN :
    \E r \in {_remove(indexes, q, multi, inMemoryOnly, datafile)} :
      Direct(r.idxs, "remove", r.res)

NextTtl ==
  \/ InsertDated
  \/ EnsureTtlIndex
  \/ FindCall
  \/ RemoveCall

\* a datastore with documents that expire
SpecTtl == InitIdx /\ [][NextTtl]_vars

(***************************************************************************)
(* The cursor: find(query) with sort, skip, limit and projection, and      *)
(* Cursor._exec from the candidates on.  undefined stands for a setting    *)
(* that was not made.                                                      *)
(***************************************************************************)
undefined == -1

\* one sort criterion { key: direction }
Criterion(key, direction) == [key |-> key, direction |-> direction]

\* the sort queries of the model: none, {}, one key, two keys
SortQueries ==
  { [set |-> FALSE, criteria |-> <<>>], [set |-> TRUE, criteria |-> <<>>] }
  \cup { [set |-> TRUE, criteria |-> <<Criterion("name", dir)>>] :
           dir \in {1, -1} }
  \cup { [set |-> TRUE,
          criteria |-> <<Criterion("name", d[1]), Criterion("_id", d[2])>>] :
           d \in {1, -1} \X {1, -1} }

Skips == {undefined, 0, 1, 2}
Limits == {undefined, 0, 1, 2}

\* a projection gives 0, 1 or nothing for _id, name and a field no
\* document has
ProjectionQueries == [_id : {undefined, 0, 1}, name : {undefined, 0, 1},
                      other : {undefined, 0, 1}]
NoProjection == [_id |-> undefined, name |-> undefined, other |-> undefined]

\* the cursors of the model: with sort, skip and limit, or with a
\* projection
Cursors ==
  [query : Queries, sort : SortQueries, skip : Skips, limit : Limits,
   projection : {NoProjection}]
  \cup [query : Queries, sort : {[set |-> FALSE, criteria |-> <<>>]},
        skip : {undefined}, limit : {undefined},
        projection : ProjectionQueries]

\* the loop of _exec over the candidates: without a sort the first skip
\* matches are passed over and the loop ends when limit matches were added
RECURSIVE Scan(_, _, _, _)
Scan(candidates, cursor, res, skipped) ==
  IF candidates = <<>> THEN res
  ELSE IF ~match(Head(candidates), cursor.query)
  THEN Scan(Tail(candidates), cursor, res, skipped)
  ELSE IF cursor.sort.set
  THEN Scan(Tail(candidates), cursor, Append(res, Head(candidates)), skipped)
  ELSE IF cursor.skip > 0 /\ cursor.skip > skipped
  THEN Scan(Tail(candidates), cursor, res, skipped + 1)
  ELSE IF cursor.limit > 0 /\ cursor.limit <= Len(res) + 1
  THEN Append(res, Head(candidates))
  ELSE Scan(Tail(candidates), cursor, Append(res, Head(candidates)), skipped)

\* the comparison function handed to res.sort: the first criterion whose
\* comparison is not 0 decides
RECURSIVE compare(_, _, _)
compare(criteria, a, b) ==
  IF criteria = <<>> THEN 0
  ELSE With(Head(criteria).direction
              * compareThings(GetDotValue(a, Head(criteria).key),
                              GetDotValue(b, Head(criteria).key)),
            LAMBDA c : IF c # 0 THEN c ELSE compare(Tail(criteria), a, b))

\* Array.prototype.sort with that function; the sort is stable
RECURSIVE SortInsert(_, _, _)
SortInsert(criteria, sorted, doc) ==
  IF sorted = <<>> THEN <<doc>>
  ELSE IF compare(criteria, Head(sorted), doc) <= 0
  THEN <<Head(sorted)>> \o SortInsert(criteria, Tail(sorted), doc)
  ELSE <<doc>> \o sorted

RECURSIVE sort(_, _)
sort(criteria, res) ==
  IF res = <<>> THEN <<>>
  ELSE SortInsert(criteria, sort(criteria, SubSeq(res, 1, Len(res) - 1)),
                  res[Len(res)])

\* res.slice(skip, skip + limit) with limit = this._limit || res.length
\* and skip = this._skip || 0
slice(res, cursor) ==
  With(IF cursor.skip > 0 THEN cursor.skip ELSE 0, LAMBDA skip :
    With(IF cursor.limit > 0 THEN cursor.limit ELSE Len(res), LAMBDA limit :
      SubSeq(res, skip + 1,
             IF skip + limit < Len(res) THEN skip + limit ELSE Len(res))))

\* Cursor.project on documents as values: the check for consistency of
\* the fields other than _id, then a pick or an omit of the fields
projectDocs(candidates, projection) ==
  IF projection = NoProjection THEN [ok |-> TRUE, docs |-> candidates]
  ELSE IF {projection.name, projection.other} \ {undefined} = {0, 1}
  THEN [ok |-> FALSE, docs |-> <<>>]
  ELSE [ok |-> TRUE,
        docs |-> [i \in 1..Len(candidates) |->
          [_id |-> IF projection._id # 0 THEN candidates[i]._id ELSE VUndef,
           name |-> IF 1 \in {projection.name, projection.other}
                    THEN (IF projection.name = 1 THEN candidates[i].name
                          ELSE VUndef)
                    ELSE (IF projection.name = 0 THEN VUndef
                          ELSE candidates[i].name)]]]

\* Cursor._exec from the candidates on
execOnCandidates(c, cursor) ==
  IF ~c.ok THEN [res |-> "queryError", docs |-> <<>>]
  ELSE With(Scan(c.docs, cursor, <<>>, 0), LAMBDA res :
         With(IF cursor.sort.set
              THEN slice(sort(cursor.sort.criteria, res), cursor) ELSE res,
              LAMBDA out : With(projectDocs(out, cursor.projection),
                LAMBDA p : [res |-> IF p.ok THEN "ok" ELSE "projectionError",
                            docs |-> p.docs])))

\* a call of a cursor, which leaves the datastore as it is and is the last
\* call of a behaviour: the event holds the cursor and what the caller gets
CursorCall(fn, cursor, r) ==
  /\ nops < MaxCalls
  /\ nops' = MaxCalls
  /\ ev' = [kind |-> "call", fn |-> fn, res |-> r.res, cursor |-> cursor,
            docs |-> r.docs]
  /\ UNCHANGED <<loaded, heap, csw, inMemoryOnly, ttlIndexes, indexes, ready, buffer,
                 queue, isRunning, qpos, acts, datafile, tempfile, restarts,
                 lastMut, outOfOrder, callbacks, preShutdown, postLoad>>

\* find(query).sort(..).skip(..).limit(..).projection(..).exec(), as the
\* executor calls it: _exec awaits getCandidates
ExecCall ==
  \E cursor \in Cursors :
    CursorCall("exec", cursor,
               execOnCandidates(CandidatesOf("getCandidates", indexes,
                                             cursor.query), cursor))

\* Cursor._exec from the candidates on, on the documents of the datastore
\* as candidates
ExecOnCandidates ==
  \E cursor \in Cursors :
    CursorCall("tryExec", cursor,
               execOnCandidates(CandidatesOf("getAllData", indexes,
                                             cursor.query), cursor))

NextCur ==
  \/ InsertCall
  \/ ExecCall
  \/ ExecOnCandidates

\* a datastore and the cursors on it
SpecCur == InitIdx /\ [][NextCur]_vars

\* Cursor.project on the cursor: delete this._projection._id, made when
\* there is a projection with a key, before the check for consistency
projectionAfter(projection) ==
  IF projection = NoProjection THEN projection
  ELSE [projection EXCEPT !._id = undefined]

\* the cursor after _exec, which reaches project when it has candidates
cursorAfter(c, cursor) ==
  IF ~c.ok THEN cursor
  ELSE [cursor EXCEPT !.projection = projectionAfter(cursor.projection)]

\* the cursors that are executed twice: with a limit or with a projection
TwiceCursors == {cursor \in Cursors : ~cursor.sort.set /\ cursor.skip = undefined}

\* a cursor is executed, and then once more, on the same datastore: the
\* event holds the cursor and what the caller gets, the cursor after the
\* first call and what the caller gets from the second call
ExecutedTwice(fn, source) ==
  \E cursor \in TwiceCursors :
    \E c \in {CandidatesOf(source, indexes, cursor.query)} :
    \E after \in {cursorAfter(c, cursor)} :
    \E r \in {execOnCandidates(c, cursor)} :
      /\ nops < MaxCalls
      /\ nops' = MaxCalls
      /\ ev' = [kind |-> "call", fn |-> fn, res |-> r.res,
                cursor |-> cursor, docs |-> r.docs, after |-> after,
                again |-> execOnCandidates(c, after)]
      /\ UNCHANGED <<loaded, heap, csw, inMemoryOnly, ttlIndexes, indexes, ready, buffer,
                     queue, isRunning, qpos, acts, datafile, tempfile,
                     restarts, lastMut, outOfOrder, callbacks, preShutdown,
                     postLoad>>

\* cursor._exec() called twice, as the executor calls it
ExecTwice == ExecutedTwice("execTwice", "getCandidates")

\* Cursor._exec from the candidates on, twice, on the documents of the
\* datastore as candidates
ExecTwiceOnCandidates == ExecutedTwice("tryExecTwice", "getAllData")

NextTwice ==
  \/ InsertCall
  \/ ExecTwice
  \/ ExecTwiceOnCandidates

\* a datastore and the cursors that are executed twice on it
SpecTwice == InitIdx /\ [][NextTwice]_vars

(***************************************************************************)
(* The constructor with autoload: it pushes the load and then calls the    *)
(* onload handler, if one was given, in the same turn.                     *)
(***************************************************************************)
\* new Datastore({ filename, autoload: true, onload }): this.loadDatabase()
\* pushes the load with forceQueuing on the idle queue, which starts it;
\* then options.onload() is called, without an argument
Autoload ==
  /\ ev.kind = "init"
  /\ nops < MaxOps
  /\ nops' = nops + 1
  /\ UNCHANGED <<loaded, heap, csw, inMemoryOnly, ttlIndexes, datafile, tempfile,
                 restarts, preShutdown, postLoad, ready, buffer>>
  /\ queue' = Append(queue, Task(nops + 1, "load", <<>>, FALSE))
  /\ isRunning' = TRUE
  /\ qpos' = 2
  /\ \E onload \in BOOLEAN :
       RunTask(queue'[1], indexes, acts, lastMut, outOfOrder,
               Event("autoload", IF onload THEN "onload" ELSE "",
                     "undefined"))

NextAuto ==
  \/ Autoload
  \/ Insert
  \/ RunNext
  \/ \E i \in 1..Len(acts) : LoadIntegrity(i)
  \/ \E i \in 1..Len(acts) : LoadRead(i)
  \/ \E i \in 1..Len(acts) : WriteTemp(i)
  \/ \E i \in 1..Len(acts) : Rename(i)
  \/ \E i \in 1..Len(acts) : IoError(i)

\* a datastore constructed with autoload, and inserts on it
SpecAuto == Init /\ [][NextAuto]_vars

(***************************************************************************)
(* The comparisons of values: the query operators $lt, $lte, $gt and $gte  *)
(* (lt, lte, gt, gte below), the comparison of the keys of an index, and   *)
(* the comparison of a cursor sort, on a datastore constructed with or     *)
(* without the option compareStrings.                                      *)
(***************************************************************************)
Null == [kind |-> "null", repr |-> "null"]
Bool(r) == [kind |-> "boolean", repr |-> r]
Obj == [kind |-> "object", repr |-> "[object Object]"]

\* the operands of the query operators: a value of a document and a value
\* of a query
Operands ==
  { VUndef, Null, Bool("false"), Bool("true"), Num("0"), Num("1"),
    Str("a"), Str("b"), Str("g1"), Date("old"), Date("new"),
    Arr("1"), Arr("a,b"), Obj }

\* the values that are keys of an index or sorted on in the model
Keys ==
  { VUndef, Num("0"), Num("1"), Str("a"), Str("b"), Str("g1"), Str("g2"),
    Date("old"), Date("new") }

\* typeof value
typeof(v) ==
  IF v.kind \in {"undefined", "boolean", "number", "string"} THEN v.kind
  ELSE "object"

isDate(v) == v.kind = "date"

\* Date.getTime() of the two dates of the model
getTime(v) == IF v.repr = "old" THEN 1 ELSE 2

NaN == [nan |-> TRUE, n |-> 0]
Number(n) == [nan |-> FALSE, n |-> n]

\* ToNumber of a string of the model
StringToNumber(s) ==
  IF s \in {"", "0"} THEN Number(0) ELSE IF s = "1" THEN Number(1) ELSE NaN

\* ToNumber(ToPrimitive(value, number)): a date gives its time, null 0, an
\* array or an object the number of its string
ToNumber(v) ==
  IF v.kind = "number" THEN StringToNumber(v.repr)
  ELSE IF v.kind = "date" THEN Number(getTime(v))
  ELSE IF v.kind = "null" THEN Number(0)
  ELSE IF v.kind = "boolean" THEN Number(IF v.repr = "true" THEN 1 ELSE 0)
  ELSE IF v.kind = "undefined" THEN NaN
  ELSE StringToNumber(v.repr)

\* a < b of JavaScript: two strings by code units, otherwise as numbers,
\* false when one of them is NaN
Less(a, b) ==
  IF a.kind = "string" /\ b.kind = "string" THEN KeyRank(a) < KeyRank(b)
  ELSE With(ToNumber(a), LAMBDA x : With(ToNumber(b), LAMBDA y :
         ~x.nan /\ ~y.nan /\ x.n < y.n))

\* a <= b of JavaScript
LessEq(a, b) ==
  IF a.kind = "string" /\ b.kind = "string" THEN KeyRank(a) <= KeyRank(b)
  ELSE With(ToNumber(a), LAMBDA x : With(ToNumber(b), LAMBDA y :
         ~x.nan /\ ~y.nan /\ x.n <= y.n))

\* areComparable(a, b) of comparison.ts
areComparable(a, b) ==
  IF /\ typeof(a) # "string" /\ typeof(a) # "number" /\ ~isDate(a)
     /\ typeof(b) # "string" /\ typeof(b) # "number" /\ ~isDate(b)
  THEN FALSE
  ELSE IF typeof(a) # typeof(b) THEN FALSE
  ELSE TRUE

lt(a, b) == areComparable(a, b) /\ Less(a, b)
lte(a, b) == areComparable(a, b) /\ LessEq(a, b)
gt(a, b) == areComparable(a, b) /\ Less(b, a)
gte(a, b) == areComparable(a, b) /\ LessEq(b, a)

\* comparisonFunctions[op](a, b), as matchQueryPart calls it
comparisonFunctions(op, a, b) ==
  IF op = "$lt" THEN lt(a, b) ELSE IF op = "$lte" THEN lte(a, b)
  ELSE IF op = "$gt" THEN gt(a, b) ELSE gte(a, b)

\* the option compareStrings of the datastore: none, or a function that
\* compares two strings by their length
CompareStrings == {"undefined", "byLength"}

byLength(a, b) ==
  IF Len(a.repr) < Len(b.repr) THEN -1
  ELSE IF Len(a.repr) > Len(b.repr) THEN 1 ELSE 0

\* model.compareThings(a, b, _compareStrings): two strings are compared by
\* _compareStrings when it is given
compareThingsWith(a, b, compareStrings) ==
  IF a.kind = "string" /\ b.kind = "string" /\ compareStrings # "undefined"
  THEN byLength(a, b)
  ELSE compareThings(a, b)

\* a comparison is made, one in a behaviour: the event holds the operands,
\* the option of the datastore and the outcome
Compared(fn, a, b, compareStrings, out) ==
  /\ nops < MaxCalls
  /\ nops' = MaxCalls
  /\ ev' = [kind |-> "compare", fn |-> fn, res |-> out, a |-> a, b |-> b,
            compareStrings |-> compareStrings]
  /\ UNCHANGED <<loaded, heap, csw, inMemoryOnly, ttlIndexes, indexes, ready, buffer,
                 queue, isRunning, qpos, acts, datafile, tempfile, restarts,
                 lastMut, outOfOrder, callbacks, preShutdown, postLoad>>

\* a query { field: { $lt: b } } and its like on a document whose field is a
CompareOperator ==
  \E op \in {"$lt", "$lte", "$gt", "$gte"}, a, b \in Operands,
     compareStrings \in CompareStrings :
    Compared(op, a, b, compareStrings, comparisonFunctions(op, a, b))

\* the tree of an index compares two keys: its compareKeys is
\* model.compareThings, called with the two keys
CompareKeys ==
  \E a, b \in Keys, compareStrings \in CompareStrings :
    Compared("compareKeys", a, b, compareStrings, compareThings(a, b))

\* the comparison function of a cursor sort on one key: compareThings is
\* handed this.db.compareStrings
CompareSort ==
  \E a, b \in Keys, compareStrings \in CompareStrings :
    Compared("sort", a, b, compareStrings,
             compareThingsWith(a, b, compareStrings))

NextCmp ==
  \/ CompareOperator
  \/ CompareKeys
  \/ CompareSort

\* the comparisons of a datastore
SpecCmp == InitIdx /\ [][NextCmp]_vars

(***************************************************************************)
(* The candidates of a query.  The first step of Datastore.getCandidates   *)
(* picks the documents from an index on a field of the query when there    *)
(* is one: by key for a basic match, by the keys of a $in, between the     *)
(* bounds of a comparison; otherwise it takes every document.  The         *)
(* queries of this section are on the field name.                          *)
(***************************************************************************)
FieldQuery(op, args) == [op |-> op, args |-> args]

\* {}, { name: v }, { name: { $in: [..] } } and { name: { $lt: v } } with
\* its like
FieldQueries ==
  {FieldQuery("all", <<>>)}
  \cup {FieldQuery("eq", <<v>>) : v \in {Str("a"), Str("b")}}
  \cup {FieldQuery("$in", vs) : vs \in {<<Str("a")>>, <<Str("a"), Str("b")>>}}
  \cup {FieldQuery(op, <<v>>) :
          op \in {"$lt", "$lte", "$gt", "$gte"}, v \in {Str("a"), Str("b")}}

\* areThingsEqual(a, b) of comparison.ts
areThingsEqual(a, b) ==
  IF \/ a.kind \in {"null", "string", "boolean", "number"}
     \/ b.kind \in {"null", "string", "boolean", "number"}
  THEN a = b
  ELSE IF isDate(a) \/ isDate(b)
  THEN isDate(a) /\ isDate(b) /\ getTime(a) = getTime(b)
  ELSE IF \/ (a.kind = "array") # (b.kind = "array")
          \/ a.kind = "undefined" \/ b.kind = "undefined"
  THEN FALSE
  ELSE a = b

\* matchQueryPart on a value that is no array
matchValue(objValue, q) ==
  IF q.op = "eq" THEN areThingsEqual(objValue, q.args[1])
  ELSE IF q.op = "$in"
  THEN \E i \in 1..Len(q.args) : areThingsEqual(objValue, q.args[i])
  ELSE comparisonFunctions(q.op, objValue, q.args[1])

\* matchQueryPart(obj, "name", queryValue): an array in the document
\* matches when one of its elements does
matchQueryPart(obj, q) ==
  IF q.op = "all" THEN TRUE
  ELSE IF obj.name.kind = "array"
  THEN \E elt \in Elements(obj.name) : matchValue(elt, q)
  ELSE matchValue(obj.name, q)

\* Index.getMatching(value) of a value that is no array
getMatching(idx, value) == TreeSearch(idx.tree, value)

\* Index.getMatching(values) of an array: the matches of each value are
\* written to an object under doc._id, that is under the string of the
\* _id, and the values of the object are returned; of the matches with the
\* same string one is left
getMatchingIn(idx, values) ==
  With(UNION {getMatching(idx, values[i]) : i \in 1..Len(values)},
       LAMBDA found :
         {res \in SUBSET found :
            \A doc \in found :
              Cardinality({x \in res : x._id.repr = doc._id.repr}) = 1})

\* tree.betweenBounds(query) for one bound: the documents whose key is on
\* the side of the bound the operator names, in the order of compareKeys
getBetweenBounds(idx, op, bound) ==
  {x[2] : x \in {y \in BagToSet(idx.tree) :
                   With(compareThings(y[1], bound), LAMBDA c :
                     IF op = "$lt" THEN c < 0
                     ELSE IF op = "$lte" THEN c <= 0
                     ELSE IF op = "$gt" THEN c > 0
                     ELSE c >= 0)}}

\* the first step of getCandidates with this the datastore: the sets of
\* documents it can hand to the second step
candidatesByIndex(idxs, q) ==
  IF /\ q.op = "eq" /\ HasIndex(idxs, "name")
     /\ q.args[1].kind \in {"string", "number", "boolean", "date", "null"}
  THEN {getMatching(IndexOf(idxs, "name"), q.args[1])}
  ELSE IF q.op = "$in" /\ HasIndex(idxs, "name")
  THEN getMatchingIn(IndexOf(idxs, "name"), q.args)
  ELSE IF q.op \in {"$lt", "$lte", "$gt", "$gte"} /\ HasIndex(idxs, "name")
  THEN {getBetweenBounds(IndexOf(idxs, "name"), q.op, q.args[1])}
  ELSE {StoredDocs(idxs)}

\* the documents inserted in this section: the _id is a number, the string
\* of that number, or generated
KeyedDocs ==
  [_id : {Num("1"), Str("1"), VUndef},
   name : {VUndef, Str("a"), Str("b"), Arr("a,b")}]

InsertKeyed ==
  \E d \in KeyedDocs :
    \E o \in _insert(Task(0, "insert", <<d>>, FALSE), indexes, inMemoryOnly,
                     datafile) :
      Direct(o.idxs, "insert", o.res)

\* a find of a query, the last call of a behaviour: the event holds the
\* query, the candidates and the documents found among them
Found(fn, q, res, candidates) ==
  /\ nops < MaxCalls
  /\ nops' = MaxCalls
  /\ ev' = [kind |-> "call", fn |-> fn, res |-> res, query |-> q,
            candidates |-> candidates,
            docs |-> {d \in candidates : matchQueryPart(d, q)}]
  /\ UNCHANGED <<loaded, heap, csw, inMemoryOnly, ttlIndexes, indexes, ready, buffer,
                 queue, isRunning, qpos, acts, datafile, tempfile, restarts,
                 lastMut, outOfOrder, callbacks, preShutdown, postLoad>>

\* find(query).exec(), as the executor calls it: _exec awaits getCandidates
FindByQuery ==
  \E q \in FieldQueries :
    IF getCandidates(indexes, q).ok
    THEN \E c \in candidatesByIndex(indexes, q) : Found("find", q, "ok", c)
    ELSE Found("find", q, "queryError", {})

\* the first step of getCandidates and the scan of _exec, on the datastore
FindByIndex ==
  \E q \in FieldQueries :
    \E c \in candidatesByIndex(indexes, q) : Found("candidates", q, "ok", c)

NextCand ==
  \/ InsertKeyed
  \/ EnsureIndexOn("name")
  \/ FindByQuery
  \/ FindByIndex

\* a datastore with or without an index on name, and the finds on it
SpecCand == InitIdx /\ [][NextCand]_vars

(***************************************************************************)
(* The modifier $addToSet on the field of a document.  An array is a       *)
(* record with the sequence of its elements; the value of the modifier is  *)
(* an element or an object { $each: .. }, with or without a further key.   *)
(***************************************************************************)
MaxElts == 2

ArrayOf(elts) == [kind |-> "array", elts |-> elts]
Each(each, others) == [kind |-> "each", each |-> each, others |-> others]

\* the elements of the arrays of this section
SetElts == {Num("1"), Str("1"), Str("a")}

\* the sequences of at most MaxElts elements
EltSeqs == UNION {[1..n -> SetElts] : n \in 0..MaxElts}

\* obj[field] before the call: no such field, a string, or an array
FieldValues == {VUndef, Str("a")} \cup {ArrayOf(s) : s \in EltSeqs}

\* the value of the modifier
SetValues ==
  SetElts
  \cup {Each(ArrayOf(s), o) : s \in EltSeqs, o \in BOOLEAN}
  \cup {Each(Str("a"), FALSE)}

\* $addToSet(obj, field, value), on the value of obj[field].  For each
\* element of $each the function calls itself as $addToSet(field, v): obj
\* is then the name of the field, a string, on which no array can be
\* created, and the call throws
addToSet(fieldValue, value) ==
  With(IF fieldValue = VUndef THEN ArrayOf(<<>>) ELSE fieldValue, LAMBDA arr :
    IF arr.kind # "array" THEN [ok |-> FALSE, out |-> fieldValue]
    ELSE IF value.kind = "each"
    THEN IF value.others THEN [ok |-> FALSE, out |-> fieldValue]
         ELSE IF value.each.kind # "array"
         THEN [ok |-> FALSE, out |-> fieldValue]
         ELSE IF value.each.elts # <<>>
         THEN [ok |-> FALSE, out |-> fieldValue]
         ELSE [ok |-> TRUE, out |-> arr]
    ELSE IF \E i \in 1..Len(arr.elts) : compareThings(arr.elts[i], value) = 0
    THEN [ok |-> TRUE, out |-> arr]
    ELSE [ok |-> TRUE, out |-> ArrayOf(Append(arr.elts, value))])

\* modify(doc, { $addToSet: { field: value } }) on a document whose field
\* holds fieldValue, one in a behaviour: the event holds the field before
\* the call, the value of the modifier and the field of the new document
AddToSet ==
  \E fieldValue \in FieldValues, value \in SetValues :
    \E r \in {addToSet(fieldValue, value)} :
      /\ nops < MaxCalls
      /\ nops' = MaxCalls
      /\ ev' = [kind |-> "modify", fn |-> "$addToSet",
                res |-> IF r.ok THEN "ok" ELSE "modifyError",
                field |-> fieldValue, value |-> value, out |-> r.out]
      /\ UNCHANGED <<loaded, heap, csw, inMemoryOnly, ttlIndexes, indexes,
                     ready, buffer, queue, isRunning, qpos, acts, datafile,
                     tempfile, restarts, lastMut, outOfOrder, callbacks,
                     preShutdown, postLoad>>

NextSet == AddToSet

\* the calls of $addToSet
SpecSet == InitIdx /\ [][NextSet]_vars

(***************************************************************************)
(* The option timestampData.  A document of this section has the fields    *)
(* createdAt and updatedAt beside _id and name; Date("new") is new Date()  *)
(* at the call, Date("old") a date the caller or an earlier call has set.  *)
(***************************************************************************)
Stamped(doc, createdAt, updatedAt) ==
  [doc |-> doc, createdAt |-> createdAt, updatedAt |-> updatedAt]

StampedDocs ==
  {Stamped(d, c, u) : d \in {d0, d2}, c \in {VUndef, Date("old")},
                      u \in {VUndef, Date("old")}}

\* Datastore.prepareDocumentForInsertion on a document that has an _id,
\* with the option timestampData of the datastore
prepareDocumentForInsertion(timestampData, newDoc) ==
  [newDoc EXCEPT !.createdAt = IF timestampData /\ @ = VUndef
                               THEN Date("new") ELSE @]

\* model.modify on a document with timestamps: a replacement has the
\* fields of the update query only, a modifier keeps the other fields
modifyStamped(item, updateQuery) ==
  With(modify(item.doc, updateQuery), LAMBDA m :
    [ok |-> m.ok,
     doc |-> IF updateQuery.kind = "replace"
             THEN Stamped(m.doc, VUndef, VUndef)
             ELSE [item EXCEPT !.doc = m.doc]])

\* the body of the loop of _tryUpdate for a candidate that matches, with
\* the option timestampData of the datastore
modifiedDoc(timestampData, item, updateQuery) ==
  With(modifyStamped(item, updateQuery), LAMBDA m :
    IF ~m.ok THEN [ok |-> FALSE, doc |-> item]
    ELSE [ok |-> TRUE,
          doc |-> IF timestampData
                  THEN [m.doc EXCEPT !.createdAt = item.createdAt,
                                     !.updatedAt = Date("new")]
                  ELSE m.doc])

\* a call on a document with timestamps, one in a behaviour: the event
\* holds the option of the datastore, the document before the call and
\* the document that is stored by it
StampedCall(fn, timestampData, res, before, after) ==
  /\ nops < MaxCalls
  /\ nops' = MaxCalls
  /\ ev' = [kind |-> "call", fn |-> fn, res |-> res,
            timestampData |-> timestampData, before |-> before,
            after |-> after]
  /\ UNCHANGED <<loaded, heap, csw, inMemoryOnly, ttlIndexes, indexes, ready,
                 buffer, queue, isRunning, qpos, acts, datafile, tempfile,
                 restarts, lastMut, outOfOrder, callbacks, preShutdown,
                 postLoad>>

\* Datastore._insert(newDoc) of a document with an _id
InsertStamped ==
  \E timestampData \in BOOLEAN, newDoc \in StampedDocs :
    StampedCall("insert", timestampData, "ok", newDoc,
                prepareDocumentForInsertion(timestampData, newDoc))

\* the update expressions of this section
StampedUpdates ==
  {Replacement(VUndef, Str("b")), Modifier("$set", "name", Str("b")),
   Modifier("$unset", "name", VUndef), Modifier("$set", "_id", Num("1"))}

\* Datastore._update(query, updateQuery) on a stored document that
\* matches, as the executor calls it: _tryUpdate awaits getCandidates
UpdateStamped ==
  \E timestampData \in BOOLEAN, item \in StampedDocs,
     updateQuery \in StampedUpdates :
    IF ~getCandidates(indexes, VUndef).ok
    THEN StampedCall("update", timestampData, "queryError", item, item)
    ELSE \E m \in {modifiedDoc(timestampData, item, updateQuery)} :
           StampedCall("update", timestampData,
                       IF m.ok THEN "ok" ELSE "modifyError", item, m.doc)

\* the loop of _tryUpdate behind getCandidates, on a stored document
TryUpdateStamped ==
  \E timestampData \in BOOLEAN, item \in StampedDocs,
     updateQuery \in StampedUpdates :
    \E m \in {modifiedDoc(timestampData, item, updateQuery)} :
      StampedCall("tryUpdate", timestampData,
                  IF m.ok THEN "ok" ELSE "modifyError", item, m.doc)

NextStamp ==
  \/ InsertStamped
  \/ UpdateStamped
  \/ TryUpdateStamped

\* inserts and updates on datastores with and without timestampData
SpecStamp == InitIdx /\ [][NextStamp]_vars

(***************************************************************************)
(* storage.crashSafeWriteFile(filename, data) step by step, with a crash   *)
(* of the process at any step and storage.ensureDatafileIntegrity at the   *)
(* restart.  csw.prev is the datafile at the call, csw.data the data.      *)
(***************************************************************************)
\* the data of a call: one, two or three lines
WriteData ==
  { <<DocLine(d1)>>,
    <<DocLine(d1), IndexCreatedLine("name", FALSE, FALSE)>>,
    <<DocLine(d1), DocLine(d0), DelLine(d0._id)>> }

\* the datafile and the temporary file at the call: no datafile yet, an
\* empty one, or one with content, possibly next to a temporary file that
\* an earlier crash left behind
WriteFiles ==
  { [file |-> NoFile, temp |-> NoFile],
    [file |-> [exists |-> TRUE, lines |-> <<>>], temp |-> NoFile],
    [file |-> [exists |-> TRUE, lines |-> <<DocLine(d0)>>], temp |-> NoFile],
    [file |-> [exists |-> TRUE, lines |-> <<DocLine(d0)>>],
     temp |-> [exists |-> TRUE, lines |-> <<GarbageLine>>]] }

InitWrite ==
  /\ inMemoryOnly = FALSE
  /\ indexes = <<IdIndex>>
  /\ ready = FALSE
  /\ buffer = <<>>
  /\ queue = <<>>
  /\ isRunning = FALSE
  /\ qpos = 1
  /\ acts = <<>>
  /\ \E fs \in WriteFiles : datafile = fs.file /\ tempfile = fs.temp
  /\ nops = 0
  /\ restarts = 0
  /\ ev = Event("init", "", "")
  /\ lastMut = 0
  /\ outOfOrder = FALSE
  /\ preShutdown = NoDocs
  /\ postLoad = NoDocs
  /\ \E data \in WriteData :
       csw = [pc |-> "flushDir", prev |-> datafile, data |-> data]
  /\ callbacks = {}
  /\ heap = NoHeap
  /\ loaded = FALSE
  /\ ttlIndexes = {}

\* a step of the call that changes no file
WriteStep(from, to) ==
  /\ csw.pc = from
  /\ loaded' = loaded
  /\ heap' = heap
  /\ csw' = [csw EXCEPT !.pc = to]
  /\ UNCHANGED <<inMemoryOnly, ttlIndexes, indexes, ready, buffer, queue, isRunning, qpos,
                 acts, datafile, tempfile, nops, restarts, ev, lastMut,
                 outOfOrder, callbacks, preShutdown, postLoad>>

\* flushToStorage of the directory, then exists(filename)
FlushDirectory ==
  WriteStep("flushDir", IF datafile.exists THEN "flushFile" ELSE "writeFile")

\* flushToStorage(filename)
FlushDatafile == WriteStep("flushFile", "writeFile")

\* writeFile(tempFilename, data) opens the temporary file and truncates it
OpenTemp ==
  /\ csw.pc = "writeFile"
  /\ tempfile' = [exists |-> TRUE, lines |-> <<>>]
  /\ loaded' = loaded
  /\ heap' = heap
  /\ csw' = [csw EXCEPT !.pc = "writing"]
  /\ UNCHANGED <<inMemoryOnly, ttlIndexes, indexes, ready, buffer, queue, isRunning, qpos,
                 acts, datafile, nops, restarts, ev, lastMut, outOfOrder, callbacks,
                 preShutdown, postLoad>>

\* writeFile(tempFilename, data) writes the next piece of the data
WritePiece ==
  /\ csw.pc = "writing"
  /\ tempfile' = [tempfile EXCEPT
                    !.lines = Append(@, csw.data[Len(tempfile.lines) + 1])]
  /\ loaded' = loaded
  /\ heap' = heap
  /\ csw' = [csw EXCEPT !.pc = IF Len(tempfile.lines) + 1 = Len(csw.data)
                                THEN "flushTemp" ELSE "writing"]
  /\ UNCHANGED <<inMemoryOnly, ttlIndexes, indexes, ready, buffer, queue, isRunning, qpos,
                 acts, datafile, nops, restarts, ev, lastMut, outOfOrder, callbacks,
                 preShutdown, postLoad>>

\* flushToStorage(tempFilename)
FlushTemp == WriteStep("flushTemp", "rename")

\* rename(tempFilename, filename)
RenameTemp ==
  /\ csw.pc = "rename"
  /\ datafile' = tempfile
  /\ tempfile' = NoFile
  /\ loaded' = loaded
  /\ heap' = heap
  /\ csw' = [csw EXCEPT !.pc = "flushDir2"]
  /\ UNCHANGED <<inMemoryOnly, ttlIndexes, indexes, ready, buffer, queue, isRunning, qpos,
                 acts, nops, restarts, ev, lastMut, outOfOrder, callbacks, preShutdown,
                 postLoad>>

\* the last flushToStorage of the directory
FlushDirectoryAgain == WriteStep("flushDir2", "done")

\* the process is killed at a step of the call, or right after it
Crash ==
  /\ csw.pc \in {"flushDir", "flushFile", "writeFile", "writing",
                  "flushTemp", "rename", "flushDir2", "done"}
  /\ loaded' = loaded
  /\ heap' = heap
  /\ csw' = [csw EXCEPT !.pc = "crashed"]
  /\ UNCHANGED <<inMemoryOnly, ttlIndexes, indexes, ready, buffer, queue, isRunning, qpos,
                 acts, datafile, tempfile, nops, restarts, ev, lastMut,
                 outOfOrder, callbacks, preShutdown, postLoad>>

\* the restart: storage.ensureDatafileIntegrity(filename)
Recover ==
  /\ csw.pc = "crashed"
  /\ \E fs \in {ensureDatafileIntegrity([file |-> datafile,
                                           temp |-> tempfile])} :
       datafile' = fs.file /\ tempfile' = fs.temp
  /\ loaded' = loaded
  /\ heap' = heap
  /\ csw' = [csw EXCEPT !.pc = "recovered"]
  /\ UNCHANGED <<inMemoryOnly, ttlIndexes, indexes, ready, buffer, queue, isRunning, qpos,
                 acts, nops, restarts, ev, lastMut, outOfOrder, callbacks, preShutdown,
                 postLoad>>

NextWrite ==
  \/ FlushDirectory
  \/ FlushDatafile
  \/ OpenTemp
  \/ WritePiece
  \/ FlushTemp
  \/ RenameTemp
  \/ FlushDirectoryAgain
  \/ Crash
  \/ Recover

\* one call of crashSafeWriteFile, a crash and the restart
SpecWrite == InitWrite /\ [][NextWrite]_vars

Prefixes(seq) == {SubSeq(seq, 1, n) : n \in 0..Len(seq)}

LiveDocs(lines) ==
  {[_id |-> lines[i]._id, name |-> lines[i].name] :
     i \in {j \in 1..Len(lines) :
              /\ lines[j].t = "doc"
              /\ \A k \in (j + 1)..Len(lines) :
                   ~(lines[k].t \in {"doc", "del"}
                     /\ lines[k]._id = lines[j]._id)}}

\* a log that is one fresh rewrite of docs: no tombstone, one record per
\* document
FreshRewrite(lines, docs) ==
  /\ \A i \in 1..Len(lines) : lines[i].t # "del"
  /\ {[_id |-> lines[i]._id, name |-> lines[i].name] :
        i \in {j \in 1..Len(lines) : lines[j].t = "doc"}} = docs
  /\ Cardinality({j \in 1..Len(lines) : lines[j].t = "doc"})
       = Cardinality(docs)

\* C12, first part: at the restart after the kill, ensureDatafileIntegrity
\* makes the temporary file the datafile
C12_PromotesTemp ==
  [][(/\ csw.pc = "crashed"
      /\ tempfile = [exists |-> TRUE, lines |-> csw.data]
      /\ ev'.kind = "io" /\ ev'.res = "integrity")
     => datafile' = tempfile]_vars

\* C12, second part: a find({}) after the restart returns the live
\* documents
C12_FindReturns ==
  (csw.pc = "crashed" /\ ev.kind = "run" /\ ev.fn = "exec") => ev.res = "ok"

\* C12, third part: after the load the log is a single fresh rewrite of the
\* live documents of the log before the kill
C12_FreshRewrite ==
  (csw.pc = "crashed" /\ ev.kind = "loadDone" /\ ev.res = "ok")
    => FreshRewrite(datafile.lines, LiveDocs(csw.prev.lines))

\* C12: after a kill of a compaction between the write of the temporary
\* file and the rename, the restart promotes the temporary file, a find({})
\* returns exactly the live documents and the log after the load is a
\* single fresh rewrite
C12_KilledCompaction ==
  C12_PromotesTemp /\ []C12_FindReturns /\ []C12_FreshRewrite

(***************************************************************************)
(* The properties of the executor.                                         *)
(***************************************************************************)

\* C1: at most one executor task runs at a time: when a task is started,
\* no other task is suspended at a file operation.
C1_OneTaskAtATime ==
  ev.kind = "run" => \/ acts = <<>>
                     \/ Len(acts) = 1 /\ ev.res = "suspended"

\* C2: the index mutations of the operations occur in submission order: no
\* operation changes the indexes after a later one has.
C2_SubmissionOrder == ~outOfOrder

\* C3: after a restart and loadDatabase the documents in memory are the
\* ones that were in memory just before the shutdown.
C3_RestartKeepsDocuments ==
  postLoad.known => postLoad.docs = preShutdown.docs

\* C9: when loadDatabase completes successfully the executor is ready.
C9_LoadMarksReady ==
  (ev.kind = "loadDone" /\ ev.res = "ok") => ready

\* C10: when loadDatabase fails on a corrupt datafile the executor stays
\* not-ready and the buffered tasks stay in the buffer.
C10_CorruptLoadKeepsBuffer ==
  [][(ev'.kind = "loadDone" /\ ev'.res = "corrupt")
       => (ready' = ready /\ buffer' = buffer)]_vars

\* the step is a task of the executor that has failed
TaskFails(e) == e.kind = "run" /\ e.res \notin {"ok", "suspended"}

\* C14, the queue: after a task that fails the loop of the queue is still
\* running, and the loop only ends when it has gone through the queue
C14_QueueGoesOn ==
  /\ [][TaskFails(ev') => (isRunning' /\ qpos' <= Len(queue') + 1)]_vars
  /\ [](ev.kind = "idle" => qpos = Len(queue) + 1)

\* C14: when a task of the executor fails, the error is handed to the
\* caller that submitted the operation, and the queue goes on with the
\* tasks queued after it
C14_TaskErrorDelivered ==
  [][TaskFails(ev')
       => /\ isRunning' /\ qpos' <= Len(queue') + 1
          /\ \E c \in callbacks' \ callbacks : c.res = ev'.res]_vars

(***************************************************************************)
(* The properties of update.                                               *)
(***************************************************************************)
\* the documents an update applies to: the candidates that match, or the
\* first of them when multi is not set
Targets(candidates, query, multi) ==
  {candidates[i] :
     i \in {j \in 1..Len(candidates) :
              /\ match(candidates[j], query)
              /\ (multi \/ \A k \in 1..(j - 1) : ~match(candidates[k], query))}}

\* the update expression would give the document another _id
WouldChangeId(doc, u) ==
  \/ u.kind = "replace" /\ u._id # VUndef /\ u._id # doc._id
  \/ u.kind = "modifier" /\ u.field = "_id" /\ u.mod = "$set"
       /\ u.value # doc._id
  \/ u.kind = "modifier" /\ u.field = "_id" /\ u.mod = "$unset"

\* a modifier of the update expression fails on the document: modifiers
\* mixed with plain fields, an unknown modifier, $inc with a value or on a
\* field that is no number, or a key that begins with $
ModifierFails(doc, u) ==
  \/ u.kind = "mixed"
  \/ u.kind = "modifier" /\ u.mod \notin {"$set", "$unset", "$inc"}
  \/ u.kind = "modifier" /\ u.mod = "$inc"
       /\ (u.value.kind # "number"
           \/ doc[u.field].kind \notin {"number", "undefined"})
  \/ u.kind = "modifier" /\ u.mod = "$set" /\ u.value = BadObject
  \/ u.kind = "replace" /\ u.name = BadObject

UpdateEvent(e) == e.kind = "call" /\ e.fn \in {"update", "tryUpdate"}

\* C15, on every update of the documents of the datastore: an update that
\* would change an _id or whose modifier fails on a document it applies to
\* fails and returns the indexes as they were
C15_FailingUpdateChangesNothing ==
  \A q \in Queries, u \in UpdateQueries, multi \in BOOLEAN :
    (\E d \in Targets(getAllData(indexes).docs, q, multi) :
       WouldChangeId(d, u) \/ ModifierFails(d, u))
    => \E r \in {_tryUpdate(getAllData(indexes), q, u, multi, indexes,
                            inMemoryOnly, datafile)} :
         r.res = "modifyError" /\ r.idxs = indexes

\* the _id values of the documents of the datastore
StoredIds(idxs) == {d._id : d \in StoredDocs(idxs)}

\* C15: an update that would change a document's _id, or whose modifier
\* fails on a document it applies to, fails and changes neither the indexes
\* nor the log, for any document of a multi-update; and an update keeps the
\* _id of every document
C15_UpdateKeepsId ==
  /\ []C15_FailingUpdateChangesNothing
  /\ [][(UpdateEvent(ev') /\ ev'.res \in {"modifyError", "queryError"})
          => (indexes' = indexes /\ datafile' = datafile)]_vars
  /\ [][UpdateEvent(ev')
          => /\ StoredIds(indexes') = StoredIds(indexes)
             /\ Cardinality(StoredDocs(indexes'))
                  = Cardinality(StoredDocs(indexes))]_vars

\* a multi-update has failed on its second document after the first one
\* was modified, on a datastore with an index on name
C15_Witness ==
  /\ UpdateEvent(ev) /\ ev.fn = "tryUpdate" /\ ev.res = "modifyError"
  /\ HasIndex(indexes, "name")
  /\ \E u \in UpdateQueries :
       \E docs \in {getAllData(indexes).docs} :
         /\ Len(docs) >= 2
         /\ modify(docs[1], u).ok
         /\ modify(docs[1], u).doc # docs[1]
         /\ ~modify(docs[2], u).ok

(***************************************************************************)
(* update with upsert                                                      *)
(***************************************************************************)
\* no document of the datastore matches the query
NoMatch(idxs, query) == \A d \in StoredDocs(idxs) : ~match(d, query)

\* the update expression is a pure replacement
PureReplacement(u) == u.kind = "replace" /\ u.name # BadObject

\* the document an upsert is to insert: the update expression when it is
\* a pure replacement, otherwise the literal fields of the query with the
\* modifiers applied once
Constructed(q, u) ==
  IF PureReplacement(u) THEN [_id |-> u._id, name |-> u.name]
  ELSE modify(deepCopy(q), u).doc

\* the update expression is one an upsert can construct a document from
Constructible(q, u) ==
  PureReplacement(u) \/ (u.kind = "modifier" /\ modify(deepCopy(q), u).ok)

\* the datastore after holds the documents of before and exactly one more,
\* the constructed one, under the _id given or a generated one
OneMore(before, after, doc) ==
  \E d \in StoredDocs(after) \ StoredDocs(before) :
    /\ StoredDocs(after) = StoredDocs(before) \cup {d}
    /\ d.name = doc.name
    /\ IF doc._id = VUndef THEN d._id \in GenIds ELSE d._id = doc._id

\* C16: update with upsert, when no document matches the query, inserts
\* exactly one new document, the constructed one, and the datastore holds
\* exactly one more document than before
C16_UpsertInsertsOne ==
  \A q \in Queries, u \in UpsertQueries, multi \in BOOLEAN :
    (NoMatch(indexes, q) /\ Constructible(q, u))
    => \A r \in _update("getCandidates", q, u, multi, indexes, inMemoryOnly,
                        datafile) :
         OneMore(indexes, r.idxs, Constructed(q, u))

\* the same for _tryCreate and _tryUpdate from the candidates on
C16_UpsertOnCandidates ==
  \A q \in Queries, u \in UpsertQueries, multi \in BOOLEAN :
    (NoMatch(indexes, q) /\ Constructible(q, u))
    => \A r \in _update("getAllData", q, u, multi, indexes, inMemoryOnly,
                        datafile) :
         OneMore(indexes, r.idxs, Constructed(q, u))

\* the same for the update expressions with modifiers whose inserted
\* document the query does not match
C16_UpsertOnCandidatesNoRematch ==
  \A q \in Queries, u \in UpsertQueries, multi \in BOOLEAN :
    (/\ NoMatch(indexes, q) /\ Constructible(q, u)
     /\ ~PureReplacement(u) /\ ~match(Constructed(q, u), q))
    => \A r \in _update("getAllData", q, u, multi, indexes, inMemoryOnly,
                        datafile) :
         OneMore(indexes, r.idxs, Constructed(q, u))

(***************************************************************************)
(* No object is shared between the datastore and its caller                *)
(***************************************************************************)
\* the stored documents with the contents of their nested objects
StoredContent(h) ==
  {<<h.objs[r]._id,
     IF h.objs[r].name = 0 THEN -1 ELSE h.objs[h.objs[r].name].v>> :
     r \in h.stored}

\* C17: no mutable object can be reached both from a stored document and
\* from an object the caller has passed in or was handed
C17_NoSharing ==
  Reach(heap.objs, heap.stored) \cap Reach(heap.objs, heap.caller) = {}

\* C17: a change the caller makes to an object it holds never changes a
\* stored document
C17_MutationKeepsStored ==
  [][ev'.kind = "mutate" => StoredContent(heap') = StoredContent(heap)]_vars

(***************************************************************************)
(* The facade and the executor                                             *)
(***************************************************************************)
\* C18: a call of the facade changes no index and no log by itself, only
\* the task it has pushed does
C18_CallsPushTasks ==
  [][ev'.kind = "call" => (indexes' = indexes /\ datafile' = datafile)]_vars

\* C18: a task changes the indexes only when no other task is under way
C18_NoTaskUnderWay ==
  [][(ev'.kind = "run" /\ indexes' # indexes) => acts = <<>>]_vars

\* C18: nothing but loadDatabase changes the indexes while the executor is
\* not ready
C18_NotBeforeReady ==
  [][(ev'.kind \in {"run", "call"} /\ ev'.fn # "load" /\ indexes' # indexes)
       => ready]_vars

\* C18: insert, update, remove, ensureIndex, removeIndex, loadDatabase,
\* compactDatafile and Cursor.exec change the indexes and the log only as
\* tasks of the executor, not while another task is running and not while
\* the executor is not ready
C18_AllThroughExecutor ==
  C18_CallsPushTasks /\ C18_NoTaskUnderWay /\ C18_NotBeforeReady

(***************************************************************************)
(* The index on _id                                                        *)
(***************************************************************************)
\* C19: after any sequence of operations the datastore has an index on
\* _id, and that index is unique and not sparse
C19_IdIndexKept ==
  /\ HasIndex(indexes, "_id")
  /\ IndexOf(indexes, "_id").unique
  /\ ~IndexOf(indexes, "_id").sparse

\* the same as long as removeIndex has not been called on _id
C19_IdIndexKeptUnlessRemoved ==
  [][(HasIndex(indexes, "_id") /\ ~HasIndex(indexes', "_id"))
       => (ev'.kind = "call" /\ ev'.fn = "removeIndex")]_vars

(***************************************************************************)
(* The properties of the indexes.                                          *)
(***************************************************************************)

\* the entries a secondary index must hold for the documents docs
ExpectedTree(idx, docs) ==
  SetToBag({<<GetDotValue(d, idx.fieldName), d>> :
              d \in {x \in docs : \/ GetDotValue(x, idx.fieldName) # VUndef
                                  \/ ~idx.sparse}})

\* C4: every secondary index holds exactly the documents of the _id index
\* whose value at its field is defined (or all of them when it is not
\* sparse), each under the key its value produces, and nothing else.
C4_SecondaryIndexesConsistent ==
  \A i \in 1..Len(indexes) :
    indexes[i].fieldName # "_id"
      => indexes[i].tree = ExpectedTree(indexes[i], StoredDocs(indexes))

(***************************************************************************)
(* The properties of a task whose persistence step fails.                  *)
(***************************************************************************)
\* every index other than _id holds exactly the documents of the _id index
IndexesAgree(idxs) ==
  \A i \in 1..Len(idxs) :
    idxs[i].fieldName # "_id"
      => idxs[i].tree = ExpectedTree(idxs[i], StoredDocs(idxs))

\* the step is an insert task whose append to the log has failed
AppendFails(e) == e.kind = "run" /\ e.fn = "insert" /\ e.res = "persistError"

\* C13, the cache: when the append fails the documents are in the indexes,
\* and the indexes agree with each other
C13_MutationKept ==
  [][AppendFails(ev')
       => /\ StoredDocs(indexes) \subseteq StoredDocs(indexes')
          /\ StoredDocs(indexes') # StoredDocs(indexes)
          /\ IndexesAgree(indexes')]_vars

\* C13: the index mutation of an insert is complete before the append to
\* the log; when the append fails the error is handed to the caller and
\* the mutation is kept, with the indexes consistent with each other
C13_AppendErrorSurfaced ==
  [][AppendFails(ev')
       => /\ StoredDocs(indexes) \subseteq StoredDocs(indexes')
          /\ StoredDocs(indexes') # StoredDocs(indexes)
          /\ IndexesAgree(indexes')
          /\ \E c \in callbacks' \ callbacks : c.res = "persistError"]_vars

InsertEvent(e) == e.kind = "call" /\ e.fn \in {"insert", "insertBatch"}

\* C5: an insert, of one document or of a batch, that fails on an index
\* leaves every index with the content it had before the call and appends
\* nothing to the datafile.
C5_InsertAllOrNothing ==
  [][(InsertEvent(ev') /\ ev'.res = "indexError")
       => (indexes' = indexes /\ datafile' = datafile)]_vars

\* a batch insert has failed with an _id index and a unique index on name
\* that hold documents
C5_Witness ==
  /\ ev.fn = "insertBatch" /\ ev.res = "indexError"
  /\ Len(indexes) = 2 /\ indexes[1].fieldName = "_id" /\ indexes[2].unique
  /\ indexes[2].tree # EmptyBag

\* C6: an update, of one pair or of an array of pairs, that fails on an
\* index leaves every index with the content it had before the call.
C6_UpdateAllOrNothing ==
  [][(ev'.fn = "updateIndexes" /\ ev'.res = "indexError")
       => indexes' = indexes]_vars

\* an update has failed with two documents in the _id index and in a
\* second index
C6_Witness ==
  /\ ev.fn = "updateIndexes" /\ ev.res = "indexError"
  /\ Len(indexes) = 2 /\ indexes[1].fieldName = "_id"
  /\ Cardinality(StoredDocs(indexes)) = 2
  /\ BagCardinality(indexes[2].tree) = 2

\* the entries of the _id index
IdTree(idxs) ==
  IF HasIndex(idxs, "_id") THEN IndexOf(idxs, "_id").tree ELSE EmptyBag

\* no two entries of the _id index are for the same _id
IdUnique(idxs) ==
  \A e \in BagToSet(IdTree(idxs)) :
    /\ CopiesIn(e, IdTree(idxs)) = 1
    /\ \A f \in BagToSet(IdTree(idxs)) : f[2]._id = e[2]._id => f = e

\* C7: no two documents of the _id index have the same _id, and an insert
\* keeps the stored documents and adds only documents whose _id, given or
\* generated, was not stored.
C7_IdUniqueness ==
  /\ []IdUnique(indexes)
  /\ [][InsertEvent(ev')
          => /\ StoredDocs(indexes) \subseteq StoredDocs(indexes')
             /\ \A d \in StoredDocs(indexes') \ StoredDocs(indexes) :
                  \A e \in StoredDocs(indexes) : e._id # d._id]_vars

\* an insert has failed on the _id index, the only index, which holds a
\* document with a given _id and one with a generated _id
C7_Witness ==
  /\ ev.fn = "insert" /\ ev.res = "indexError"
  /\ Len(indexes) = 1
  /\ \E d \in StoredDocs(indexes) : d._id \in GenIds
  /\ \E d \in StoredDocs(indexes) : d._id = Num("1")

\* no two entries of a unique index are under the same key
UniqueKeys(idx) ==
  \A e \in BagToSet(idx.tree) :
    /\ CopiesIn(e, idx.tree) = 1
    /\ \A f \in BagToSet(idx.tree) :
         compareThings(f[1], e[1]) = 0 => f = e

\* C8: a unique index never holds two documents under the same key, and an
\* ensureIndex that fails creates no index.
C8_UniqueIndex ==
  /\ [](\A i \in 1..Len(indexes) : indexes[i].unique => UniqueKeys(indexes[i]))
  /\ [][(ev'.fn = "ensureIndex" /\ ev'.res = "indexError")
          => indexes' = indexes]_vars

\* ensureIndex has failed on a datastore with two documents of the same
\* name, and there is no index on name
C8_Witness ==
  /\ ev.fn = "ensureIndex" /\ ev.res = "indexError"
  /\ ~HasIndex(indexes, "name")
  /\ \A d \in StoredDocs(indexes) : d.name.kind = "string"
  /\ \E d \in StoredDocs(indexes), e \in StoredDocs(indexes) :
       d # e /\ d.name = e.name

(***************************************************************************)
(* The secondary indexes across a restart                                  *)
(***************************************************************************)
\* C20: after a restart and loadDatabase the secondary indexes and their
\* flags are those of just before the shutdown, for a datastore that was
\* loaded before the shutdown
C20_SameIndexesAfterLoad ==
  (postLoad.known /\ preShutdown.loaded) => postLoad.idx = preShutdown.idx

\* C20: when a load after a restart has rebuilt the indexes, every index
\* holds the documents of the datastore
C20_RecreatedIndexesFilled ==
  [][(ev'.kind = "io" /\ ev'.fn = "load" /\ ev'.res = "replayed")
       => IndexesAgree(indexes')]_vars

\* C20: the secondary indexes survive a restart, with their flags and
\* with the surviving documents in them
C20_IndexesSurviveRestart ==
  []C20_SameIndexesAfterLoad /\ C20_RecreatedIndexesFilled

(***************************************************************************)
(* The corruption threshold of loadDatabase                                *)
(***************************************************************************)
\* the lines of the datafile that fail to deserialize, a blank last line
\* not counted
CorruptLines(file) ==
  Cardinality({i \in 1..Len(file.lines) : ~deserialize(file.lines[i]).ok})

\* the lines of the datafile, a blank last line counted
TotalLines(file) == Len(split(file))

\* C21: the datafile is refused as corrupt exactly when the lines that
\* fail to deserialize, a blank last line not counted, are more than
\* corruptAlertThreshold of all lines; otherwise the load keeps the
\* documents of the other lines
C21_CorruptExactlyAboveThreshold ==
  ev.kind = "treat" =>
    /\ ev.res = "corrupt"
         <=> (CorruptLines(datafile) * ThresholdDen
                > ThresholdNum * TotalLines(datafile))
    /\ ev.res = "ok"
         => postLoad.docs
              = {deserialize(datafile.lines[i]).doc :
                   i \in {j \in 1..Len(datafile.lines) :
                            deserialize(datafile.lines[j]).ok}}

\* the same for the datafiles that end with a newline
C21_CorruptAboveThresholdTerminated ==
  (ev.kind = "treat" /\ datafile.terminated) =>
    /\ ev.res = "corrupt"
         <=> (CorruptLines(datafile) * ThresholdDen
                > ThresholdNum * TotalLines(datafile))
    /\ ev.res = "ok"
         => postLoad.docs
              = {deserialize(datafile.lines[i]).doc :
                   i \in {j \in 1..Len(datafile.lines) :
                            deserialize(datafile.lines[j]).ok}}

\* treatRawData on the lines of a datafile that ends with a newline, as
\* loadDatabase uses it, refuses the same datafiles
C21_SameAsLoad ==
  (ev.kind = "treat" /\ datafile.terminated) =>
    (treatRawData(datafile.lines).ok <=> ev.res = "ok")

\* C21: a load that refuses a corrupt datafile hands the error to its
\* caller
C21_CorruptErrorRaised ==
  [][(ev'.kind = "loadDone" /\ ev'.res = "corrupt")
       => callbacks' # callbacks]_vars

(***************************************************************************)
(* Expired documents                                                       *)
(***************************************************************************)
\* C22: after a find no expired document is left in the datastore, so
\* none is returned by it, and for each one removed a tombstone is in
\* the log; a remove expires nothing
C22_ExpiredRemovedByFind ==
  [][(ev'.kind = "call" /\ ev'.fn = "find")
       => \A d \in StoredDocs(indexes) :
            Expired(ttlIndexes, d)
              => /\ d \notin StoredDocs(indexes')
                 /\ (~inMemoryOnly
                       => \E i \in 1..Len(datafile'.lines) :
                            datafile'.lines[i] = DelLine(d._id))]_vars

\* C22: a remove that takes no expired document out as a match leaves
\* the expired documents in the datastore
C22_RemoveExpiresNothing ==
  [][(ev'.kind = "call" /\ ev'.fn = "remove" /\ ev'.res # "ok")
       => indexes' = indexes]_vars

(***************************************************************************)
(* C23: what a cursor returns                                              *)
(***************************************************************************)
\* the matches of a cursor among the documents of the datastore, in the
\* order of the candidates
Matches(idxs, cursor) ==
  SelectSeq(getAllData(idxs).docs, LAMBDA d : match(d, cursor.query))

\* a sorts before b: the first sort key on which they differ, times its
\* direction, says so
SortsBefore(criteria, a, b) ==
  \E i \in 1..Len(criteria) :
    /\ criteria[i].direction
         * compareThings(GetDotValue(a, criteria[i].key),
                         GetDotValue(b, criteria[i].key)) < 0
    /\ \A j \in 1..(i - 1) :
         compareThings(GetDotValue(a, criteria[j].key),
                       GetDotValue(b, criteria[j].key)) = 0

\* the number of documents the claim gives for ms matches when a limit of
\* 0 counts as hasLimit
Expected(ms, skip, hasLimit, limit) ==
  With(IF ms - skip > 0 THEN ms - skip ELSE 0, LAMBDA rest :
    IF hasLimit /\ limit < rest THEN limit ELSE rest)

\* docs is what the claim describes for the matches ms of the cursor
SortedSkippedLimited(ms, cursor, hasLimit, docs) ==
  With(IF cursor.skip > 0 THEN cursor.skip ELSE 0, LAMBDA skip :
    /\ Len(docs) = Expected(Len(ms), skip, hasLimit, cursor.limit)
    /\ (skip >= Len(ms) => docs = <<>>)
    /\ IF ~cursor.sort.set
       THEN docs = SubSeq(ms, skip + 1, skip + Len(docs))
       ELSE /\ \A i \in 1..Len(docs) :
                 /\ \E k \in 1..Len(ms) : ms[k] = docs[i]
                 /\ Cardinality({k \in 1..Len(ms) :
                      SortsBefore(cursor.sort.criteria, ms[k], docs[i])})
                      <= skip + i - 1
                 /\ Cardinality({k \in 1..Len(ms) :
                      ~SortsBefore(cursor.sort.criteria, docs[i], ms[k])})
                      >= skip + i
            /\ \A i, j \in 1..Len(docs) :
                 i < j => /\ docs[i] # docs[j]
                          /\ ~SortsBefore(cursor.sort.criteria,
                                          docs[j], docs[i]))

\* C23: find(query).sort(..).skip(..).limit(..).exec() returns the matches
\* in the order of the sort keys, without the first skip of them and at
\* most limit of them; without a sort, in the order of the candidates
C23_ExecSortsSkipsLimits ==
  (ev.kind = "call" /\ ev.fn = "exec" /\ ev.cursor.projection = NoProjection)
    => /\ ev.res = "ok"
       /\ SortedSkippedLimited(Matches(indexes, ev.cursor), ev.cursor,
                               ev.cursor.limit # undefined, ev.docs)

\* C23 for the code of _exec behind getCandidates, applied to all the
\* documents of the datastore
C23_OnCandidates ==
  (ev.kind = "call" /\ ev.fn = "tryExec"
     /\ ev.cursor.projection = NoProjection)
    => /\ ev.res = "ok"
       /\ SortedSkippedLimited(Matches(indexes, ev.cursor), ev.cursor,
                               ev.cursor.limit # undefined, ev.docs)

\* C23 for the code of _exec behind getCandidates when limit(0) counts as
\* no limit
C23_OnCandidatesLimitZeroIsNone ==
  (ev.kind = "call" /\ ev.fn = "tryExec"
     /\ ev.cursor.projection = NoProjection)
    => /\ ev.res = "ok"
       /\ SortedSkippedLimited(Matches(indexes, ev.cursor), ev.cursor,
                               ev.cursor.limit > 0, ev.docs)

\* a sorted cursor on three matches of which it skips one and keeps one
C23_SortedCase ==
  /\ ev.kind = "call" /\ ev.fn = "tryExec" /\ ev.cursor.sort.set
  /\ ev.cursor.sort.criteria # <<>>
  /\ ev.cursor.skip = 1 /\ ev.cursor.limit = 1
  /\ Len(Matches(indexes, ev.cursor)) = 3
  /\ ev.docs # <<>> /\ ev.docs[1] # Matches(indexes, ev.cursor)[2]

(***************************************************************************)
(* C24: projections                                                        *)
(***************************************************************************)
\* the projection both keeps and omits fields other than _id
MixesModes(projection) ==
  \E f, g \in {"name", "other"} : projection[f] = 1 /\ projection[g] = 0

\* doc as the claim describes it under a projection that does not mix: in
\* pick mode only the picked fields, in omit mode all but the omitted ones;
\* _id unless it is set to 0
Projected(doc, projection) ==
  [_id |-> IF projection._id = 0 THEN VUndef ELSE doc._id,
   name |-> IF \E f \in {"name", "other"} : projection[f] = 1
            THEN (IF projection.name = 1 THEN doc.name ELSE VUndef)
            ELSE (IF projection.name = 0 THEN VUndef ELSE doc.name)]

\* what the caller gets is what the claim describes for the cursor
ProjectionResult(e, ms) ==
  IF MixesModes(e.cursor.projection)
  THEN e.res = "projectionError" /\ e.docs = <<>>
  ELSE /\ e.res = "ok"
       /\ e.docs = [i \in 1..Len(ms) |-> Projected(ms[i], e.cursor.projection)]

\* C24: find(query).projection(p).exec() fails with the error of a mixed
\* projection and returns nothing when p has both 0 and 1 for fields other
\* than _id; otherwise it returns the matches with the picked fields, or
\* without the omitted ones, and with _id unless p has _id: 0
C24_ExecProjects ==
  (ev.kind = "call" /\ ev.fn = "exec" /\ ev.cursor.projection # NoProjection)
    => ProjectionResult(ev, Matches(indexes, ev.cursor))

\* C24 for the code of _exec behind getCandidates, applied to all the
\* documents of the datastore
C24_OnCandidates ==
  (ev.kind = "call" /\ ev.fn = "tryExec"
     /\ ev.cursor.projection # NoProjection)
    => ProjectionResult(ev, Matches(indexes, ev.cursor))

\* a pick of name without _id on a document that has both, and a mixed
\* projection with _id: 1 that fails
C24_PickCase ==
  /\ ev.kind = "call" /\ ev.fn = "tryExec"
  /\ ev.cursor.projection = [_id |-> 0, name |-> 1, other |-> undefined]
  /\ \E i \in 1..Len(ev.docs) :
       ev.docs[i]._id = VUndef /\ ev.docs[i].name = Str("a")

C24_MixedCase ==
  /\ ev.kind = "call" /\ ev.fn = "tryExec" /\ ev.res = "projectionError"
  /\ ev.cursor.projection = [_id |-> 1, name |-> 0, other |-> 1]
  /\ Matches(indexes, ev.cursor) # <<>>

(***************************************************************************)
(* C25: autoload and the onload handler                                    *)
(***************************************************************************)
\* a load is between its start and its end
LoadUnderWay == \E i \in 1..Len(acts) : acts[i].fn = "load"

\* C25: with autoload, when the onload handler is called the load has
\* completed
C25_OnloadAfterLoad ==
  (ev.kind = "autoload" /\ ev.fn = "onload") => ~LoadUnderWay

\* C25: when the load of the constructor fails, its error is handed to the
\* onload handler or, without one, raised
C25_LoadErrorHandedOver ==
  [][(ev'.kind = "loadDone" /\ ev'.res # "ok")
       => callbacks' # callbacks]_vars

(***************************************************************************)
(* C26: the option compareStrings                                          *)
(***************************************************************************)
\* the event is a comparison of two strings on a datastore that was given
\* compareStrings
CustomComparison(e) ==
  /\ e.kind = "compare" /\ e.compareStrings = "byLength"
  /\ e.a.kind = "string" /\ e.b.kind = "string"

\* the outcome of the comparison e is the one that follows from c, the
\* comparison of its operands: c itself for keys and sorts, c < 0 for $lt
\* and so on
FollowsFrom(e, c) ==
  IF e.fn = "$lt" THEN e.res = (c < 0)
  ELSE IF e.fn = "$lte" THEN e.res = (c <= 0)
  ELSE IF e.fn = "$gt" THEN e.res = (c > 0)
  ELSE IF e.fn = "$gte" THEN e.res = (c >= 0)
  ELSE e.res = c

\* C26: on a datastore constructed with compareStrings every comparison of
\* two strings, in a cursor sort, between keys of an index and in $lt,
\* $lte, $gt and $gte, is made with it
C26_CompareStringsEverywhere ==
  CustomComparison(ev) => FollowsFrom(ev, byLength(ev.a, ev.b))

\* C26 for the comparison of a cursor sort alone
C26_CompareStringsInSort ==
  (CustomComparison(ev) /\ ev.fn = "sort")
    => FollowsFrom(ev, byLength(ev.a, ev.b))

\* the keys of an index and the query operators compare strings by code
\* units whatever compareStrings is
C26_DefaultElsewhere ==
  (CustomComparison(ev) /\ ev.fn # "sort")
    => FollowsFrom(ev, compareThings(ev.a, ev.b))

(***************************************************************************)
(* C27: $lt, $lte, $gt and $gte                                            *)
(***************************************************************************)
\* a and b are two numbers, two strings or two dates
SameComparableKind(a, b) ==
  a.kind = b.kind /\ a.kind \in {"number", "string", "date"}

\* C27: $lt, $lte, $gt and $gte are true only for two numbers, two strings
\* or two dates that are in the order of the operator, and false for every
\* other pair of operands
C27_ComparableOnly ==
  (ev.kind = "compare" /\ ev.fn \in {"$lt", "$lte", "$gt", "$gte"})
    => (ev.res = (/\ SameComparableKind(ev.a, ev.b)
                   /\ FollowsFrom([ev EXCEPT !.res = TRUE],
                                  compareThings(ev.a, ev.b))))

\* C27 for the pairs of operands in which a date is not with null, an
\* array or an object
C27_ComparableOnlyDatesApart ==
  (/\ ev.kind = "compare" /\ ev.fn \in {"$lt", "$lte", "$gt", "$gte"}
   /\ (isDate(ev.a) => ev.b.kind \notin {"null", "array", "object"})
   /\ (isDate(ev.b) => ev.a.kind \notin {"null", "array", "object"}))
    => (ev.res = (/\ SameComparableKind(ev.a, ev.b)
                   /\ FollowsFrom([ev EXCEPT !.res = TRUE],
                                  compareThings(ev.a, ev.b))))

(***************************************************************************)
(* C28: the buffer of the executor                                         *)
(***************************************************************************)
\* the step is a push of a task: it is the only step that counts a call
IsPush == nops' = nops + 1

\* seq' is seq with one task more at its end, the one pushed in this step
Pushed(before, after) ==
  /\ Len(after) = Len(before) + 1
  /\ SubSeq(after, 1, Len(before)) = before
  /\ after[Len(after)].op = nops'

\* the step runs processBuffer: it is the end of a load that has failed
RunsProcessBuffer == ev'.kind = "loadDone" /\ ev'.res # "ok"

\* C28: while the executor is not ready a task pushed without forceQueuing
\* is put at the end of the buffer and nothing is executed; a task pushed
\* with forceQueuing (the load) is put at the end of the queue; when
\* processBuffer runs the executor becomes ready, the buffer empty, and
\* the buffered tasks are at the end of the queue in the order of arrival
C28_Buffering ==
  [][/\ (IsPush /\ ~ready /\ ev'.fn # "load")
          => /\ Pushed(buffer, buffer')
             /\ queue' = queue /\ qpos' = qpos /\ isRunning' = isRunning
             /\ indexes' = indexes /\ acts' = acts /\ datafile' = datafile
     /\ (IsPush /\ ~ready /\ ev'.fn = "load")
          => Pushed(queue, queue') /\ buffer' = buffer
     /\ RunsProcessBuffer
          => ready' /\ buffer' = <<>> /\ queue' = queue \o buffer]_vars

\* processBuffer has put two buffered tasks behind the load in the queue,
\* in the order they were pushed
C28_Witness ==
  /\ ev.kind = "loadDone" /\ ready /\ buffer = <<>>
  /\ Len(queue) = 3
  /\ queue[1].fn = "load" /\ queue[2].fn # "load" /\ queue[3].fn # "load"
  /\ queue[2].op < queue[3].op /\ queue[3].op < queue[1].op

(***************************************************************************)
(* C29: the records a mutation appends                                     *)
(***************************************************************************)
\* the lines that the step has added at the end of the datafile
AppendedLines ==
  SubSeq(datafile'.lines, Len(datafile.lines) + 1, Len(datafile'.lines))

\* the records the claim gives for the step: a record for each document
\* that has come into the datastore, a record for an index that was
\* created, a record for an index that was removed
ExpectedRecords ==
  {DocLine(d) : d \in StoredDocs(indexes') \ StoredDocs(indexes)}
  \cup {IndexCreatedLine(i.fieldName, i.unique, i.sparse) :
          i \in SecondaryIndexes(indexes') \ SecondaryIndexes(indexes)}
  \cup {IndexRemovedLine(i.fieldName) :
          i \in SecondaryIndexes(indexes) \ SecondaryIndexes(indexes')}

\* the step is an insert, an ensureIndex or a removeIndex on a persistent
\* datastore that has taken effect in memory
Mutation ==
  /\ ~inMemoryOnly /\ ev'.kind = "call"
  /\ ev'.fn \in {"insert", "insertBatch", "ensureIndex", "removeIndex"}
  /\ \/ StoredDocs(indexes') # StoredDocs(indexes)
     \/ SecondaryIndexes(indexes') # SecondaryIndexes(indexes)

\* C29: a mutation of a persistent datastore appends to the datafile one
\* record for each inserted document, or the one record of the index that
\* was created or removed, and nothing else
C29_MutationAppendsRecords ==
  [][Mutation
       => /\ SubSeq(datafile'.lines, 1, Len(datafile.lines)) = datafile.lines
          /\ {AppendedLines[k] : k \in 1..Len(AppendedLines)} = ExpectedRecords
          /\ Len(AppendedLines) = Cardinality(ExpectedRecords)]_vars

\* C29: a call that affects no document and no index appends nothing
C29_NoEffectNoAppend ==
  [][(/\ ~inMemoryOnly /\ ev'.kind = "call"
      /\ StoredDocs(indexes') = StoredDocs(indexes)
      /\ SecondaryIndexes(indexes') = SecondaryIndexes(indexes))
       => datafile' = datafile]_vars

\* no call on a persistent datastore appends anything
C29_NothingAppended ==
  [][(~inMemoryOnly /\ ev'.kind = "call") => datafile' = datafile]_vars

(***************************************************************************)
(* C30: the datafile after a compaction                                    *)
(***************************************************************************)
\* the records of a compacted datafile for the indexes idxs: one for each
\* document and one for each index other than the one on _id
CompactRecords(idxs) ==
  {DocLine(d) : d \in StoredDocs(idxs)}
  \cup {IndexCreatedLine(i.fieldName, i.unique, i.sparse) :
          i \in SecondaryIndexes(idxs)}

\* the file holds each of the records once and nothing else
HoldsExactly(file, records) ==
  /\ file.exists
  /\ {file.lines[k] : k \in 1..Len(file.lines)} = records
  /\ Len(file.lines) = Cardinality(records)

\* the step is the end of persistCachedDatabase, where compaction.done is
\* emitted: of a compaction, or of the one at the end of a load
CompactionDone(e) ==
  \/ e.kind = "io" /\ e.fn = "compact" /\ e.res = "ok"
  \/ e.kind = "loadDone" /\ e.res = "ok"

\* C30: when compaction.done is emitted the datafile holds one record for
\* each document of the datastore and one $$indexCreated record for each
\* index other than the one on _id, and nothing else
C30_CompactedDatafile ==
  CompactionDone(ev) => HoldsExactly(datafile, CompactRecords(indexes))

\* C30: compaction.done is emitted in the step in which the rewritten file
\* takes the place of the datafile, which then has no tombstone and no
\* $$indexRemoved record
C30_DoneAfterRewrite ==
  [][CompactionDone(ev')
       => /\ tempfile.exists /\ datafile' = tempfile /\ ~tempfile'.exists
          /\ \A k \in 1..Len(datafile'.lines) :
               datafile'.lines[k].t \in {"doc", "idxc"}]_vars

(***************************************************************************)
(* C31: the removals of the sweep and the executor                         *)
(***************************************************************************)
\* the tasks that entered the queue or the buffer in a step
NewTasks(q, q2) == {q2[i] : i \in (Len(q) + 1)..Len(q2)}

\* C31: a find that scans expired documents returns before they are
\* removed, and for each one a removal is a task of its own in the
\* executor
C31_SweepThroughExecutor ==
  [][(ev'.kind = "call" /\ ev'.fn = "find")
       => /\ indexes' = indexes
          /\ \A d \in StoredDocs(indexes) :
               Expired(ttlIndexes, d)
                 => \E t \in NewTasks(queue, queue') \cup
                             NewTasks(buffer, buffer') :
                      t.fn = "remove" /\ t.docs = <<d>>]_vars

\* C31: a find removes nothing in its own turn, and it hands no task to
\* the executor
C31_FindSchedulesNothing ==
  [][(ev'.kind = "call" /\ ev'.fn = "find")
       => /\ indexes' = indexes
          /\ queue' = queue
          /\ buffer' = buffer]_vars

(***************************************************************************)
(* C32: the methods of an index                                            *)
(***************************************************************************)
\* C32: an index created on a field of a datastore that holds one
\* document, with an array in that field, holds the document once under
\* each distinct element of the array
C32_ArrayIndexedPerElement ==
  [][(/\ ev'.kind = "call" /\ ev'.fn = "ensureIndex"
      /\ ~HasIndex(indexes, "name")
      /\ \E d \in StoredDocs(indexes) :
           StoredDocs(indexes) = {d} /\ d.name.kind = "array")
       => /\ HasIndex(indexes', "name")
          /\ \A d \in StoredDocs(indexes) : \A k \in Elements(d.name) :
               CopiesIn(<<k, d>>, IndexOf(indexes', "name").tree) = 1]_vars

\* C32: on every index of the datastore, insert (one document or an
\* array), update (one pair or an array of pairs of stored documents) and
\* revertUpdate of an update that was made either succeed or leave the
\* index as it was before the call
C32_IndexMethodsAtomic ==
  \A i \in 1..Len(indexes) :
    /\ \A d \in Docs :
         With(IndexInsert(indexes[i], d), LAMBDA r :
           ~r.ok => r.idx = indexes[i])
    /\ \A b \in Docs \X Docs :
         With(insertMultipleDocs(indexes[i], <<b[1], b[2]>>), LAMBDA r :
           ~r.ok => r.idx = indexes[i])
    /\ \A upd \in UpdateArgs(indexes) :
         With(IndexUpdate(indexes[i], upd), LAMBDA r :
           IF r.ok
           THEN With(revertUpdate(r.idx, upd), LAMBDA v :
                  IF v.ok THEN v.idx = indexes[i] ELSE v.idx = r.idx)
           ELSE r.idx = indexes[i])

\* C32: no document is ever in an index under an element of an array
C32_NoArrayEverIndexed ==
  \A i \in 1..Len(indexes) : \A x \in BagToSet(indexes[i].tree) :
    GetDotValue(x[2], indexes[i].fieldName).kind # "array"

(***************************************************************************)
(* C33: every task of the queue is executed once                           *)
(***************************************************************************)
\* the position in the queue of the task a step starts (0: none)
StartedAt(pos, pos2) == IF pos2 # pos THEN pos2 - 1 ELSE 0

\* C33: the tasks of the queue are started in turn, each one once: a step
\* that starts a task starts the one behind the last task that was
\* started, whether the queue was idle or running when it was pushed
C33_ExactlyOnce ==
  [][qpos' # qpos => StartedAt(qpos, qpos') = qpos]_vars

\* C33: no task is skipped: while the queue is running the task started is
\* the one behind the task started last, and the queue is idle only when
\* its last task has been started
C33_NeverSkipped ==
  [][/\ (isRunning /\ qpos' # qpos) => StartedAt(qpos, qpos') = qpos
     /\ (isRunning /\ ~isRunning') => qpos' = Len(queue') + 1]_vars

(***************************************************************************)
(* C34: a compaction among mutations                                       *)
(***************************************************************************)
\* every task that was submitted has run to its end
AllFinished == ~isRunning /\ acts = <<>> /\ buffer = <<>>

\* a compaction and a mutation are among the tasks of the queue
CompactionAmongMutations ==
  /\ \E i \in 1..Len(queue) : queue[i].fn = "compact"
  /\ \E i \in 1..Len(queue) : queue[i].fn \in {"insert", "update", "remove"}

\* the documents a replay of the file gives
Replayed(file) ==
  With(treatRawData(file.lines).data, LAMBDA data :
    {data[i] : i \in 1..Len(data)})

\* C34: once a compaction and the mutations submitted with it have all
\* finished, the compaction having rewritten the datafile, a replay of the
\* datafile gives exactly the documents of the datastore
C34_NoMutationLost ==
  (/\ ev.kind = "io" /\ ev.fn = "compact" /\ ev.res = "ok"
   /\ AllFinished /\ CompactionAmongMutations
   /\ \A d \in StoredDocs(indexes) : Truthy(d._id))
    => Replayed(datafile) = StoredDocs(indexes)

\* C34: what a compaction writes is the cache as it was when the
\* compaction was started: a replay of the temporary file it has written
\* gives documents that were in the datastore at that time
C34_CompactionWritesItsSnapshot ==
  [][(ev'.kind = "io" /\ ev'.fn = "compact" /\ ev'.res = "written")
       => \E i \in 1..Len(acts) :
            /\ acts[i].fn = "compact" /\ acts[i].pc = "write"
            /\ tempfile'.lines = acts[i].data]_vars

(***************************************************************************)
(* C35: the candidates of a query and the indexes                          *)
(***************************************************************************)
\* the documents of the datastore that match the query
MatchingDocs(idxs, q) == {d \in StoredDocs(idxs) : matchQueryPart(d, q)}

\* C35: a find returns the documents of the datastore that match its
\* query, whether or not there is an index on the field of the query
C35_FindWhateverTheIndexes ==
  (ev.kind = "call" /\ ev.fn = "find")
    => ev.res = "ok" /\ ev.docs = MatchingDocs(indexes, ev.query)

\* C35: the candidates the first step of getCandidates takes from an index
\* or from the whole datastore include every document that matches the
\* query, so that the scan finds the same documents with and without an
\* index
C35_CandidatesIncludeMatches ==
  (ev.kind = "call" /\ ev.fn = "candidates")
    => /\ MatchingDocs(indexes, ev.query) \subseteq ev.candidates
       /\ ev.docs = MatchingDocs(indexes, ev.query)

\* C35: the same, on a datastore in which no two _ids have the same string
C35_CandidatesIncludeMatchesDistinctIds ==
  (/\ ev.kind = "call" /\ ev.fn = "candidates"
   /\ \A d, x \in StoredDocs(indexes) : d._id.repr = x._id.repr => d = x)
    => /\ MatchingDocs(indexes, ev.query) \subseteq ev.candidates
       /\ ev.docs = MatchingDocs(indexes, ev.query)

\* C35: a case of the claim: a query that matches a document is answered
\* from an index on name
C35_IndexedCase ==
  /\ ev.kind = "call" /\ ev.fn = "candidates"
  /\ HasIndex(indexes, "name") /\ ev.query.op # "all"
  /\ MatchingDocs(indexes, ev.query) # {}
  /\ ev.candidates # StoredDocs(indexes)

(***************************************************************************)
(* C36: a cursor executed twice                                            *)
(***************************************************************************)
\* the second call has the outcome of the first, and the cursor is as it
\* was
SameAgain(e) ==
  /\ e.again.res = e.res
  /\ e.again.docs = e.docs
  /\ e.after = e.cursor

\* C36: a cursor executed twice on an unchanged datastore returns the same
\* documents both times, and its limit, skip, sort and projection are
\* after the first call what they were before
C36_ExecTwiceSame ==
  (ev.kind = "call" /\ ev.fn = "execTwice")
    => ev.res # "queryError" /\ SameAgain(ev)

\* C36 without the outcome of the calls: the two calls of _exec end in the
\* same way and leave the cursor as it was
C36_ExecTwiceSameOutcome ==
  (ev.kind = "call" /\ ev.fn = "execTwice") => SameAgain(ev)

C36_OnCandidatesIdNotProjected ==
  (/\ ev.kind = "call" /\ ev.fn = "tryExecTwice"
   /\ ev.cursor.projection._id = undefined)
    => SameAgain(ev)

\* a case of the claim: a limit, and more matches than the limit
C36_LimitCase ==
  /\ ev.kind = "call" /\ ev.fn = "tryExecTwice"
  /\ ev.cursor.limit = 1 /\ Len(Matches(indexes, ev.cursor)) > 1
  /\ Len(ev.again.docs) = 1

(***************************************************************************)
(* C37: an ensureIndex that fails                                          *)
(***************************************************************************)
\* the call of ensureIndex fails for want of a fieldName, or because the
\* index cannot be filled with the documents of the datastore
EnsureIndexFails(e) ==
  /\ e.kind = "call" /\ e.fn = "ensureIndex"
  /\ e.res \in {"missingFieldName", "indexError"}

\* C37: an ensureIndex that fails leaves the datastore as it was: no index
\* is added, no field is registered to expire, no record is appended
C37_FailedEnsureIndexChangesNothing ==
  [][EnsureIndexFails(ev')
       => /\ indexes' = indexes
          /\ ttlIndexes' = ttlIndexes
          /\ datafile' = datafile]_vars

\* C37: an ensureIndex that fails adds no index and appends no record
C37_FailedEnsureIndexKeepsIndexes ==
  [][EnsureIndexFails(ev')
       => indexes' = indexes /\ datafile' = datafile]_vars

\* C37: an ensureIndex on a field that has an index changes no index,
\* registers nothing and appends nothing
C37_ExistingIndexUntouched ==
  [][(ev'.kind = "call" /\ ev'.fn = "ensureIndex" /\ ev'.res = "exists")
       => /\ HasIndex(indexes, "name")
          /\ indexes' = indexes
          /\ ttlIndexes' = ttlIndexes
          /\ datafile' = datafile]_vars

(***************************************************************************)
(* C38: $addToSet with $each                                               *)
(***************************************************************************)
\* elts with v behind it unless an element of elts compares equal to v
AddOne(elts, v) ==
  IF \E i \in 1..Len(elts) : compareThings(elts[i], v) = 0 THEN elts
  ELSE Append(elts, v)

\* elts after each of vs has been added in turn
RECURSIVE AddAll(_, _)
AddAll(elts, vs) ==
  IF vs = <<>> THEN elts ELSE AddAll(AddOne(elts, Head(vs)), Tail(vs))

\* the call is one with { $each: array } alone, on an array or on a
\* document without the field
EachOnArray(e) ==
  /\ e.kind = "modify" /\ e.fn = "$addToSet"
  /\ e.value.kind = "each" /\ ~e.value.others /\ e.value.each.kind = "array"
  /\ e.field.kind \in {"array", "undefined"}

\* C38: $addToSet with { $each: [..] } succeeds and adds each element of
\* the list as $addToSet of that element does: behind the others when no
\* element of the array compares equal to it, not at all otherwise
C38_EachAddsEachElement ==
  EachOnArray(ev)
    => /\ ev.res = "ok"
       /\ ev.out = ArrayOf(AddAll(IF ev.field.kind = "array"
                                  THEN ev.field.elts ELSE <<>>,
                                  ev.value.each.elts))

\* C38: $addToSet of one element adds it behind the others exactly when
\* no element of the array compares equal to it
C38_OneElement ==
  (/\ ev.kind = "modify" /\ ev.fn = "$addToSet"
   /\ ev.value.kind # "each" /\ ev.field.kind = "array")
    => /\ ev.res = "ok"
       /\ ev.out = ArrayOf(AddOne(ev.field.elts, ev.value))

\* C38: with an empty list the call succeeds and adds nothing; with
\* a list that has an element it fails
C38_EachFailsUnlessEmpty ==
  EachOnArray(ev) => (ev.res = "ok") = (ev.value.each.elts = <<>>)

(***************************************************************************)
(* C39: timestampData                                                      *)
(***************************************************************************)
\* the timestamp the caller gave, or the date of the call
GivenOrNow(v) == IF v = VUndef THEN Date("new") ELSE v

\* C39: with timestampData the document stored by an insert has createdAt
\* and updatedAt: the date of the insert, or what the caller supplied
C39_InsertSetsBoth ==
  (ev.kind = "call" /\ ev.fn = "insert" /\ ev.timestampData)
    => /\ ev.after.createdAt = GivenOrNow(ev.before.createdAt)
       /\ ev.after.updatedAt = GivenOrNow(ev.before.updatedAt)

\* C39: with timestampData the document stored by an insert has createdAt
C39_InsertSetsCreatedAt ==
  (ev.kind = "call" /\ ev.fn = "insert" /\ ev.timestampData)
    => ev.after.createdAt = GivenOrNow(ev.before.createdAt)

\* C39: with timestampData an update stores the document with the
\* createdAt it had and with the date of the update in updatedAt
C39_UpdateKeepsCreatedAt ==
  (/\ ev.kind = "call" /\ ev.fn = "update" /\ ev.timestampData
   /\ ev.res # "modifyError")
    => /\ ev.res = "ok"
       /\ ev.after.createdAt = ev.before.createdAt
       /\ ev.after.updatedAt = Date("new")

\* C39 for the loop of _tryUpdate behind getCandidates
C39_UpdateOnCandidates ==
  (/\ ev.kind = "call" /\ ev.fn = "tryUpdate" /\ ev.timestampData
   /\ ev.res # "modifyError")
    => /\ ev.res = "ok"
       /\ ev.after.createdAt = ev.before.createdAt
       /\ ev.after.updatedAt = Date("new")

\* a case of the claim: a replacement that names no createdAt, on a
\* document that has one
C39_ReplacementCase ==
  /\ ev.kind = "call" /\ ev.fn = "tryUpdate" /\ ev.timestampData
  /\ ev.res = "ok" /\ ev.before.createdAt = Date("old")
  /\ ev.after.doc.name = Str("b") /\ ev.after.createdAt = Date("old")

(***************************************************************************)
(* C40: loadDatabase on an in-memory-only datastore                        *)
(***************************************************************************)
\* the step runs Persistence.loadDatabase on an in-memory-only datastore
InMemoryLoad == inMemoryOnly /\ ev'.kind = "run" /\ ev'.fn = "load"

\* C40: on an in-memory-only datastore loadDatabase leaves the stored
\* documents and every index unchanged
C40_InMemoryLoadChangesNothing ==
  [][InMemoryLoad => indexes' = indexes]_vars

\* C40: on an in-memory-only datastore loadDatabase keeps the documents
C40_InMemoryLoadKeepsDocuments ==
  [][InMemoryLoad => StoredDocs(indexes') = StoredDocs(indexes)]_vars

\* C40: on an in-memory-only datastore loadDatabase keeps the set of the
\* indexes and their options, ends at once and touches no file
C40_InMemoryLoadKeepsIndexSet ==
  [][InMemoryLoad
       => /\ Len(indexes') = Len(indexes)
          /\ \A i \in 1..Len(indexes) :
               /\ indexes'[i].fieldName = indexes[i].fieldName
               /\ indexes'[i].unique = indexes[i].unique
               /\ indexes'[i].sparse = indexes[i].sparse
          /\ ev'.res = "ok"
          /\ acts' = acts
          /\ datafile' = datafile /\ tempfile' = tempfile]_vars

\* C40: the executor of an in-memory-only datastore is ready from the
\* construction on
C40_ReadyFromConstruction == inMemoryOnly => ready

\* a case of the claim: a load on an in-memory-only datastore that holds a
\* document
C40_LoadAfterInsert ==
  /\ inMemoryOnly /\ ev.kind = "run" /\ ev.fn = "load"
  /\ lastMut > 0

====
